---------------------------- MODULE Spec2Model ----------------------------
(***************************************************************************)
(* Model of the DPS optimizer of lol_champions (src/lol_champions/dps.py)  *)
(* together with the parts of champion.py, fiora.py, runes.py, items.py    *)
(* and damage.py it calls.                                                 *)
(*                                                                         *)
(* Units.  Every float of the program is held as an integer:               *)
(*   time      in milliseconds (0.25 s = 250, 10.0 s = 10000)             *)
(*   damage, healing, health, AD, AP in hundredths (66.0 AD = 6600):       *)
(*             the program rounds every table entry to 2 decimals          *)
(*   attack speed and percentages in whole percent, unless said otherwise  *)
(* round(x, 2) of the program is RoundDiv: nearest hundredth, halves up.   *)
(***************************************************************************)
EXTENDS Integers, Sequences, FiniteSets, TLC

VARIABLES
    champion,        \* the Champion object handed to optimize_dps (shared by successive calls)
    inp,             \* the arguments of the running call: loadout and time_limit
    callNo,          \* how many calls of optimize_dps have been started on this champion
    pc,              \* position inside optimize_dps / the search
    table,           \* DamageTable of the running call
    stack,           \* _branch_and_bound: the DFS stack (top is the last element)
    best,            \* _branch_and_bound: best state so far
    nodes_explored,  \* _branch_and_bound: nodes popped
    cur,             \* the state popped last (search) / the current state (legal runs)
    result,          \* what optimize_dps returned last (the dict of _format_result)
    prev,            \* what the previous call returned
    hist,            \* history: what the run has seen (not read by the program)
    calls,           \* interleaved calls: each call's locals
    heap             \* the objects of a direct use of _apply_action: states and their action lists

vars == <<champion, inp, callNo, pc, table, stack, best, nodes_explored,
          cur, result, prev, hist, calls, heap>>

-----------------------------------------------------------------------------
(* Arithmetic *)

Max(a, b) == IF a >= b THEN a ELSE b

Min(a, b) == IF a <= b THEN a ELSE b

RECURSIVE SeqMin(_)
SeqMin(q) == IF Len(q) = 1 THEN q[1] ELSE Min(q[1], SeqMin(Tail(q)))

\* round(n / d) for n >= 0, d > 0: nearest integer, halves up
RoundDiv(n, d) == (2 * n + d) \div (2 * d)

\* Op(x), with x computed once whatever the number of times Op uses it
Then(x, Op(_)) == CHOOSE r \in {Op(g) : g \in {x}} : TRUE

\* hp * pct * ratio, pct in thousandths and ratio in millionths, multiplied in
\* two halves so that no product leaves 32 bits; rounded to the nearest
MulRatio(hp, pct, ratio) ==
    LET raw == (hp * pct) \div 1000
        a == raw * (ratio \div 1000)
        b == raw * (ratio % 1000)
    IN  a \div 1000 + RoundDiv((a % 1000) * 1000 + b, 1000000)

-----------------------------------------------------------------------------
(* Program constants; times in milliseconds *)

INF == 100000000

Q_CAST_TIME == 250

W_CAST_TIME == 750

W_HIT_TIME == 500

VITAL_RESPAWN_DELAY == 2250

R_VITAL_APPEAR_DELAY == 500

E_WINDOW == 4000

BB_THRESHOLD == 10000

CONQ_MAX_STACKS == 12

-----------------------------------------------------------------------------
(* Bounds of the model *)

\* horizons tried: time_limit = HorizonStep * k for k in -1 .. MaxT
MaxT == 40

HorizonStep == 50

\* the node ceiling of _branch_and_bound (500_000 in the program), scaled so
\* that some searches of the model reach it and others end below it
max_nodes == 150

\* successive calls made on one champion object
MaxCalls == 2

\* how many state objects a direct use of _apply_action may make
MaxObjs == 4

-----------------------------------------------------------------------------
(* champion.py / fiora.py *)

\* Fiora.Q: cooldown, base damage, bonus-AD ratio (%) by rank
Q_COOLDOWNS == <<13000, 11250, 9500, 7750, 6000>>
Q_BASE == <<7000, 8000, 9000, 10000, 11000>>
Q_RATIO == <<90, 95, 100, 105, 110>>
W_COOLDOWNS == <<24000, 22000, 20000, 18000, 16000>>
W_BASE == <<11000, 15000, 19000, 23000, 27000>>
E_COOLDOWNS == <<11000, 10000, 9000, 8000, 7000>>
E_BONUS_AS == <<50, 60, 70, 80, 90>>
E_CRIT_PCT == <<160, 170, 180, 190, 200>>
R_COOLDOWNS == <<110000, 90000, 70000>>

total_AD(c) == c.base_AD + c.bonus_AD
total_AP(c) == c.base_AP + c.bonus_AP
total_HP(c) == c.base_HP + c.bonus_HP

\* Champion.add_stats(bonus_AD = x)
add_stats_AD(c, x) == [c EXCEPT !.bonus_AD = @ + x]

\* Champion.add_stats(bonus_AS = x)
add_stats_AS(c, x) == [c EXCEPT !.bonus_AS = @ + x]

\* An ability dict: "error" when the ability is not learned
NotLearned == [error |-> TRUE, raw |-> 0, type |-> "none", cooldown |-> INF, heal |-> 0]

Data(raw, type, cd, heal) ==
    [error |-> FALSE, raw |-> raw, type |-> type, cooldown |-> cd, heal |-> heal]

auto_attack(c) == Data(total_AD(c), "physical", 0, 0)

FioraQ(c) ==
    IF c.Q = 0 THEN NotLearned
    ELSE Data(Q_BASE[c.Q] + RoundDiv(c.bonus_AD * Q_RATIO[c.Q], 100),
              "physical", Q_COOLDOWNS[c.Q], 0)

FioraW(c) ==
    IF c.W = 0 THEN NotLearned
    ELSE Data(W_BASE[c.W] + total_AP(c), "magic", W_COOLDOWNS[c.W], 0)

FioraE(c) ==
    IF c.E = 0 THEN NotLearned
    ELSE Data(RoundDiv(total_AD(c) * E_CRIT_PCT[c.E], 100),
              "physical", E_COOLDOWNS[c.E], 0)

FioraR(c) ==
    IF c.R = 0 THEN NotLearned ELSE Data(0, "none", R_COOLDOWNS[c.R], 0)

\* Fiora.passive: 3% (+4% per 100 bonus AD) of the target's maximum health as
\* true damage; heal 35 .. 107.65 by level
FioraPassive(c, target_max_hp) ==
    LET pct == 300 + (c.bonus_AD * 4) \div 100      \* hundredths of a percent
    IN  Data(RoundDiv(target_max_hp * pct, 10000), "true", 0,
             3500 + RoundDiv(7265 * (c.level - 1), 19))

e_bonus_attack_speed(c) == IF c.E = 0 THEN 0 ELSE E_BONUS_AS[c.E]

\* attacks per second, in thousandths: base_AS 0.69, AS_ratio 0.69, AS_cap 3.003
total_attack_speed(c, extra) ==
    Min(3003, 690 + (690 * (c.bonus_AS + extra)) \div 100)

\* Champion.attack_interval(extra_bonus_as_pct): 1 / total_attack_speed, cut
\* to whole milliseconds, which keeps every comparison of a time with a
\* horizon of whole milliseconds as the program makes it
attack_interval(c, extra) == (1000 * 1000) \div total_attack_speed(c, extra)

\* Champion.windup_time(extra_bonus_as_pct): attack_interval * windup_pct (0.1379)
windup_time(c, extra) == 137900 \div total_attack_speed(c, extra)

-----------------------------------------------------------------------------
(* damage.py *)

\* effective_resistance with flat_reduction = pct_reduction = 0 (dps.py passes
\* neither); resistances in hundredths, pct_penetration in percent
effective_resistance(resistance, pct_penetration, flat_penetration) ==
    IF resistance > 0
    THEN Max(0, (resistance * (100 - pct_penetration)) \div 100 - flat_penetration)
    ELSE resistance

damage_after_mitigation(raw_damage, resistance) ==
    IF resistance >= 0
    THEN RoundDiv(raw_damage * 10000, 10000 + resistance)
    ELSE RoundDiv(raw_damage * (10000 - 2 * resistance), 10000 - resistance)

\* calculate_damage(ability_data, target, champion, damage_amp)["total_damage"];
\* damage_amp in percent
calculate_damage(data, target, c, damage_amp) ==
    LET post ==
          IF data.type = "true" THEN data.raw
          ELSE IF data.type = "physical"
          THEN damage_after_mitigation(data.raw,
                   effective_resistance(target.armor, c.armor_pen_pct, c.lethality))
          ELSE damage_after_mitigation(data.raw,
                   effective_resistance(target.mr, c.magic_pen_pct, c.magic_pen_flat))
    IN  RoundDiv(post * (100 + damage_amp), 100)

-----------------------------------------------------------------------------
(* runes.py *)

\* _level_scale(min_val, max_val, level), hundredths
level_scale(min_val, max_val, level) ==
    LET clamped == Max(1, Min(level, 18))
    IN  min_val + RoundDiv((max_val - min_val) * (clamped - 1), 17)

\* PressTheAttack.proc_damage
pta_proc_damage(c) ==
    Data(level_scale(4000, 17412, c.level),
         IF c.bonus_AD >= c.bonus_AP THEN "physical" ELSE "magic", 0, 0)

\* Conqueror.stat_bonus(level, stacks = max_stacks, "ad")["bonus_AD"]
conq_stat_bonus(c) == level_scale(108, 256, c.level) * CONQ_MAX_STACKS

\* Conqueror.healing(damage, is_melee = True)["heal"]: 8%
conq_healing(damage) == RoundDiv(damage * 8, 100)

\* GraspOfTheUndying.proc_damage / healing (melee): 3.5% / 1.3% of max HP
grasp_proc_damage(c) == Data(RoundDiv(total_HP(c) * 35, 1000), "magic", 0, 0)
grasp_healing(c) == RoundDiv(total_HP(c) * 13, 1000)

\* HailOfBlades.attack_speed_bonus(is_melee = True); duration 3.0 s
hob_attack_speed_bonus ==
    [bonus_attack_speed_value |-> 160, initial_stacks |-> 2, duration |-> 3000]

-----------------------------------------------------------------------------
(* items.py: proc_damage / active_damage / burn_damage / dps of each item    *)
(* the loadouts use.  An item is named by its class.                        *)

SPELLBLADE_ITEMS == {"TrinityForce", "IcebornGauntlet", "LichBane"}
ENERGIZED_ITEMS == {"VoltaicCyclosword", "RapidFirecannon", "StatikkShiv", "Stormrazor"}
HYDRA_ITEMS == {"TitanicHydra", "ProfaneHydra", "RavenousHydra"}

ON_HIT_ACTIONS == {"AA", "Q", "E_FIRST", "E_CRIT"}
ABILITY_CAST_ACTIONS == {"Q", "W", "E_ACTIVATE", "R_ACTIVATE"}
ABILITY_DAMAGE_ACTIONS == {"Q", "W", "E_FIRST", "E_CRIT"}

item_proc_damage(item, c, target) ==
    CASE item = "RecurveBow"        -> Data(1500, "physical", 0, 0)
      [] item = "WitsEnd"           -> Data(4500, "magic", 0, 0)
      [] item = "NashorsTooth"      -> Data(1500 + (total_AP(c) * 15) \div 100, "magic", 0, 0)
      [] item = "Terminus"          -> Data(3000, "magic", 0, 0)
      [] item = "TitanicHydra"      -> Data(500 + total_HP(c) \div 100, "physical", 0, 0)
      [] item = "KrakenSlayer"      ->
             Data(15000 + ((21000 - 15000) * (Min(Max(c.level, 1), 18) - 1)) \div 17,
                  "physical", 0, 0)
      [] item = "TrinityForce"      -> Data(c.base_AD * 2, "physical", 1500, 0)
      [] item = "IcebornGauntlet"   -> Data((c.base_AD * 3) \div 2, "physical", 1500, 0)
      [] item = "LichBane"          ->
             Data((c.base_AD * 3) \div 4 + (total_AP(c) * 2) \div 5, "magic", 1500, 0)
      [] item = "VoltaicCyclosword" -> Data(10000, "physical", 0, 0)
      [] item = "RapidFirecannon"   -> Data(4000, "magic", 0, 0)
      [] item = "StatikkShiv"       -> Data(6000, "magic", 0, 0)
      [] item = "Stormrazor"        -> Data(10000, "magic", 0, 0)
      [] item = "SunderedSky"       -> Data((total_AD(c) * 60) \div 100, "physical", 10000, 0)
      [] item = "DeadMansPlate"     -> Data(4000 + (c.base_AD * 120) \div 100, "physical", 0, 0)
      [] item = "Stridebreaker"     -> Data((total_AD(c) * 80) \div 100, "physical", 15000, 0)
      [] item = "ProfaneHydra"      -> Data((total_AD(c) * 80) \div 100, "physical", 10000, 0)
      [] item = "RavenousHydra"     -> Data((total_AD(c) * 80) \div 100, "physical", 10000, 0)
      [] OTHER                      -> Data(0, "physical", 0, 0)

\* TitanicHydra.active_damage: 4% of the champion's max HP, cooldown 10 s
titanic_active_damage(c) == Data((total_HP(c) * 4) \div 100, "physical", 10000, 0)

\* LiandrysTorment.burn_damage: 6% of the target's max HP, magic
liandry_burn_damage(target) == Data((target.max_hp * 6) \div 100, "magic", 0, 0)

\* SunfireAegis.dps / HollowRadiance.dps: damage per second, hundredths
immolate_item_dps(item, c) ==
    (IF item = "SunfireAegis" THEN 2000 ELSE 1500) + c.bonus_HP \div 100

-----------------------------------------------------------------------------
(* dps.py: DamageTable and build_damage_table *)

DamageTable0 ==
    [aa |-> 0, aa_pta |-> 0, aa_conq |-> 0,
     q |-> 0, q_pta |-> 0, q_conq |-> 0,
     w |-> 0, w_pta |-> 0, w_conq |-> 0,
     e_crit |-> 0, e_crit_pta |-> 0, e_crit_conq |-> 0,
     passive |-> 0, passive_pta |-> 0, passive_conq |-> 0,
     passive_heal |-> 0, passive_heal_conq |-> 0,
     pta_proc |-> 0, grasp_proc |-> 0, grasp_heal |-> 0,
     q_cd |-> INF, w_cd |-> INF, e_cd |-> INF, r_cd |-> INF,
     static_mult_num |-> 1, static_mult_den |-> 1,
     shojin_amp_per_stack |-> 0,
     on_hit_physical |-> 0, on_hit_magic |-> 0,
     botrk_pct |-> 0, botrk_phys_ratio |-> 0,
     spellblade_damage |-> 0, spellblade_cd |-> 1500,
     energized_damage |-> 0, kraken_proc |-> 0,
     liandry_burn |-> 0, immolate_dps |-> 0,
     sundered_sky_bonus |-> 0, sundered_sky_cd |-> 10000,
     dead_mans_bonus |-> 0,
     hydra_active_damage |-> 0, hydra_active_cd |-> 10000,
     stridebreaker_damage |-> 0, stridebreaker_cd |-> 15000]

\* static_mult = product of (1 + amp) over damage_modifiers; amps in percent
RECURSIVE StaticNum(_)
StaticNum(mods) == IF mods = <<>> THEN 1 ELSE (100 + Head(mods)) * StaticNum(Tail(mods))

RECURSIVE StaticDen(_)
StaticDen(mods) == IF mods = <<>> THEN 1 ELSE 100 * StaticDen(Tail(mods))

\* _amp(val) = round(val * static_mult, 2)
Amp(val, mods) == RoundDiv(val * StaticNum(mods), StaticDen(mods))

\* one pass of the item loop of build_damage_table (lines 207-273)
TableItem(t, item, c, target, mods) ==
    LET val == Amp(calculate_damage(item_proc_damage(item, c, target), target, c, 0), mods)
    IN  CASE item = "BladeOfTheRuinedKing" ->
               [t EXCEPT !.botrk_pct = 90,     \* thousandths: melee 0.09
                         \* millionths: post-mitigation share of 100 raw, times static_mult
                         !.botrk_phys_ratio =
                             RoundDiv(calculate_damage(Data(10000, "physical", 0, 0),
                                                       target, c, 0) * 100 * StaticNum(mods),
                                      StaticDen(mods))]
          [] item = "RecurveBow" -> [t EXCEPT !.on_hit_physical = @ + val]
          [] item \in {"WitsEnd", "NashorsTooth", "Terminus"} ->
               [t EXCEPT !.on_hit_magic = @ + val]
          [] item = "TitanicHydra" ->
               [t EXCEPT !.on_hit_physical = @ + val,
                         !.hydra_active_damage =
                             Amp(calculate_damage(titanic_active_damage(c), target, c, 0), mods),
                         !.hydra_active_cd = titanic_active_damage(c).cooldown]
          [] item = "KrakenSlayer" -> [t EXCEPT !.kraken_proc = val]
          [] item \in SPELLBLADE_ITEMS ->
               [t EXCEPT !.spellblade_damage = val,
                         !.spellblade_cd = item_proc_damage(item, c, target).cooldown]
          [] item \in ENERGIZED_ITEMS -> [t EXCEPT !.energized_damage = @ + val]
          [] item = "LiandrysTorment" ->
               [t EXCEPT !.liandry_burn =
                             Amp(calculate_damage(liandry_burn_damage(target), target, c, 0), mods)]
          [] item \in {"SunfireAegis", "HollowRadiance"} ->
               [t EXCEPT !.immolate_dps = @ + immolate_item_dps(item, c)]
          [] item = "SunderedSky" ->
               [t EXCEPT !.sundered_sky_bonus = val,
                         !.sundered_sky_cd = item_proc_damage(item, c, target).cooldown]
          [] item = "DeadMansPlate" -> [t EXCEPT !.dead_mans_bonus = val]
          [] item = "Stridebreaker" ->
               [t EXCEPT !.stridebreaker_damage = val,
                         !.stridebreaker_cd = item_proc_damage(item, c, target).cooldown]
          [] item \in {"ProfaneHydra", "RavenousHydra"} ->
               [t EXCEPT !.hydra_active_damage = val,
                         !.hydra_active_cd = item_proc_damage(item, c, target).cooldown]
          [] item = "SpearOfShojin" -> [t EXCEPT !.shojin_amp_per_stack = 3]
          [] OTHER -> t

RECURSIVE TableItems(_, _, _, _, _)
TableItems(t, items, c, target, mods) ==
    IF items = <<>> THEN t
    ELSE TableItems(TableItem(t, Head(items), c, target, mods), Tail(items), c, target, mods)

\* lines 275-301: base damages with the static amplifier baked in
TableBase(t, c, target, mods) ==
    LET D(data, amp) == Amp(calculate_damage(data, target, c, amp), mods)
        q == FioraQ(c)
        w == FioraW(c)
        e == FioraE(c)
        r == FioraR(c)
        p == FioraPassive(c, target.max_hp)
    IN  [t EXCEPT !.static_mult_num = StaticNum(mods),
                  !.static_mult_den = StaticDen(mods),
                  !.aa = D(auto_attack(c), 0),
                  !.q = IF q.error THEN @ ELSE D(q, 0),
                  !.q_cd = IF q.error THEN @ ELSE q.cooldown,
                  !.w = IF w.error THEN @ ELSE D(w, 0),
                  !.w_cd = IF w.error THEN @ ELSE w.cooldown,
                  !.e_crit = IF e.error THEN @ ELSE D(e, 0),
                  !.e_cd = IF e.error THEN @ ELSE e.cooldown,
                  !.passive = D(p, 0),
                  !.passive_heal = p.heal,
                  !.r_cd = IF r.error THEN @ ELSE r.cooldown]

\* lines 303-314: Press the Attack variants (8% amplification)
TablePta(t, c, target, mods) ==
    LET D(data, amp) == Amp(calculate_damage(data, target, c, amp), mods)
        q == FioraQ(c)
        w == FioraW(c)
        e == FioraE(c)
    IN  [t EXCEPT !.aa_pta = D(auto_attack(c), 8),
                  !.q_pta = IF q.error THEN @ ELSE D(q, 8),
                  !.w_pta = IF w.error THEN @ ELSE D(w, 8),
                  !.e_crit_pta = IF e.error THEN @ ELSE D(e, 8),
                  !.passive_pta = D(FioraPassive(c, target.max_hp), 8),
                  !.pta_proc = D(pta_proc_damage(c), 0)]

\* lines 322-335: Conqueror variants, read from a champion that carries the
\* bonus AD of maximum stacks
TableConq(t, cc, target, mods) ==
    LET D(data, amp) == Amp(calculate_damage(data, target, cc, amp), mods)
        q == FioraQ(cc)
        w == FioraW(cc)
        e == FioraE(cc)
        p == FioraPassive(cc, target.max_hp)
    IN  [t EXCEPT !.aa_conq = D(auto_attack(cc), 0),
                  !.q_conq = IF q.error THEN @ ELSE D(q, 0),
                  !.w_conq = IF w.error THEN @ ELSE D(w, 0),
                  !.e_crit_conq = IF e.error THEN @ ELSE D(e, 0),
                  !.passive_conq = D(p, 0),
                  !.passive_heal_conq = p.heal]

\* lines 339-344: Grasp of the Undying
TableGrasp(t, c, target, mods) ==
    [t EXCEPT !.grasp_proc = Amp(calculate_damage(grasp_proc_damage(c), target, c, 0), mods),
              !.grasp_heal = grasp_healing(c)]

\* build_damage_table up to the Conqueror block (lines 173-314)
TableBeforeConq(c, L) ==
    LET t1 == TableItems(DamageTable0, L.items, c, L.target, L.mods)
        t2 == TableBase(t1, c, L.target, L.mods)
    IN  IF L.rune = "PressTheAttack" THEN TablePta(t2, c, L.target, L.mods) ELSE t2

\* build_damage_table after the Conqueror block (lines 339-346)
TableAfterConq(t, c, L) ==
    IF L.rune = "GraspOfTheUndying" THEN TableGrasp(t, c, L.target, L.mods) ELSE t

\* build_damage_table run without interruption: the champion is read, given
\* the Conqueror bonus AD, read again, and restored (try / finally)
build_damage_table(c, L) ==
    LET t == TableBeforeConq(c, L)
        tc == IF L.rune = "Conqueror"
              THEN TableConq(t, add_stats_AD(c, conq_stat_bonus(c)), L.target, L.mods)
              ELSE t
    IN  TableAfterConq(tc, c, L)

-----------------------------------------------------------------------------
(* dps.py: DPSState *)

\* DPSState(): the dataclass defaults
DPSState0 ==
    [time |-> 0, ability_lock_until |-> 0, next_aa_at |-> 0,
     q_cd_until |-> 0, w_cd_until |-> 0, e_cd_until |-> 0, r_cd_until |-> 0,
     e_autos_remaining |-> 0, e_expires_at |-> 0,
     next_vital_at |-> 0, r_vitals_remaining |-> 0,
     pta_hits |-> 0, pta_exposed |-> FALSE, conq_stacks |-> 0,
     hob_stacks |-> 0, hob_active_until |-> 0, grasp_available |-> TRUE,
     shojin_stacks |-> 0, shojin_max_stacks |-> 0,
     spellblade_armed |-> FALSE, spellblade_cd_until |-> 0, has_spellblade |-> FALSE,
     energized_stacks |-> 100, energized_per_aa |-> 6, energized_max |-> 100,
     has_energized |-> FALSE,
     kraken_hits |-> 0, has_kraken |-> FALSE,
     sundered_sky_cd_until |-> 0, has_sundered_sky |-> FALSE,
     dead_mans_available |-> TRUE, has_dead_mans |-> FALSE,
     hydra_active_cd_until |-> 0, has_hydra_active |-> FALSE,
     stridebreaker_cd_until |-> 0, has_stridebreaker |-> FALSE,
     has_botrk |-> FALSE, target_current_hp |-> 0,
     damage_so_far |-> 0, healing_so_far |-> 0,
     actions |-> <<>>]

\* one entry of DPSState.actions: (time, action, damage, notes, healing)
Entry(t, action, damage, notes, healing) ==
    [time |-> t, action |-> action, damage |-> damage, notes |-> notes, healing |-> healing]

-----------------------------------------------------------------------------
(* dps.py: action resolution *)

\* a slip in line 355: the two stacks the action is about to grant counted
rune_variant_with_own_stacks(s, rune) ==
    IF rune = "Conqueror" /\ s.conq_stacks + 2 >= 12 THEN "conq"
    ELSE IF rune = "PressTheAttack" /\ s.pta_exposed THEN "pta"
    ELSE "base"

\* _rune_variant (lines 352-359)
rune_variant(s, rune) ==
    IF rune = "Conqueror" /\ s.conq_stacks >= 12 THEN "conq"
    ELSE IF rune = "PressTheAttack" /\ s.pta_exposed THEN "pta"
    ELSE "base"

SHOJIN_ACTIONS == {"Q", "W", "E_FIRST", "E_CRIT"}

\* a slip in lines 388-390 and 408-410: the stack the action is about to grant
\* already counted
ShojinAmp_with_own_stack(dmg, tbl, s) ==
    RoundDiv(dmg * (100 + Min(s.shojin_stacks + 1, s.shojin_max_stacks)
                          * tbl.shojin_amp_per_stack), 100)

\* round(dmg * (1 + shojin_stacks * amp_per_stack), 2), amp_per_stack in percent
ShojinAmp(dmg, tbl, s) ==
    RoundDiv(dmg * (100 + s.shojin_stacks * tbl.shojin_amp_per_stack), 100)

get_action_damage(action, tbl, s, rune) ==
    LET variant == rune_variant(s, rune)
        lookup ==
          CASE action \in {"AA", "E_FIRST"} -> <<tbl.aa, tbl.aa_pta, tbl.aa_conq>>
            [] action = "Q"      -> <<tbl.q, tbl.q_pta, tbl.q_conq>>
            [] action = "W"      -> <<tbl.w, tbl.w_pta, tbl.w_conq>>
            [] action = "E_CRIT" -> <<tbl.e_crit, tbl.e_crit_pta, tbl.e_crit_conq>>
            [] OTHER             -> <<0, 0, 0>>
        dmg == IF variant = "conq" THEN lookup[3]
               ELSE IF variant = "pta" THEN lookup[2] ELSE lookup[1]
    IN  IF action \notin {"AA", "E_FIRST", "Q", "W", "E_CRIT"} THEN 0
        ELSE IF tbl.shojin_amp_per_stack > 0 /\ action \in SHOJIN_ACTIONS
        THEN ShojinAmp(dmg, tbl, s)
        ELSE dmg

\* (vital_damage, vital_heal)
get_vital_damage(tbl, s, rune) ==
    LET variant == rune_variant(s, rune)
        dmg == IF variant = "conq" THEN tbl.passive_conq
               ELSE IF variant = "pta" THEN tbl.passive_pta ELSE tbl.passive
        heal == IF variant = "conq" THEN tbl.passive_heal_conq ELSE tbl.passive_heal
    IN  <<IF tbl.shojin_amp_per_stack > 0 THEN ShojinAmp(dmg, tbl, s) ELSE dmg, heal>>

e_active(s) == s.e_autos_remaining > 0 /\ s.e_expires_at > s.time

\* a slip in line 430: the basic attack offered whatever the attack timer
aa_slot_no_timer(s) == <<"AA">>

\* a slip in line 428: the empowered attacks outlive the window of E
aa_slot_no_expiry(s) ==
    IF s.next_aa_at <= s.time
    THEN IF s.e_autos_remaining = 2 THEN <<"E_FIRST">>
         ELSE IF s.e_autos_remaining = 1 THEN <<"E_CRIT">>
         ELSE <<"AA">>
    ELSE <<>>

\* lines 427-437: the basic-attack slot, one of AA, E_FIRST, E_CRIT
aa_slot(s) ==
    IF s.next_aa_at <= s.time
    THEN IF e_active(s) /\ s.e_autos_remaining = 2 THEN <<"E_FIRST">>
         ELSE IF e_active(s) /\ s.e_autos_remaining = 1 THEN <<"E_CRIT">>
         ELSE <<"AA">>
    ELSE <<>>

\* a slip in lines 440-452: the test of the sentinel cooldown left out
ability_actions_unchecked(s, tbl) ==
    LET t == s.time
    IN  (IF s.q_cd_until <= t THEN <<"Q">> ELSE <<>>)
        \o (IF s.w_cd_until <= t THEN <<"W">> ELSE <<>>)
        \o (IF s.e_cd_until <= t /\ ~e_active(s) THEN <<"E_ACTIVATE">> ELSE <<>>)
        \o (IF s.r_cd_until <= t /\ s.r_vitals_remaining = 0
            THEN <<"R_ACTIVATE">> ELSE <<>>)

\* lines 439-453: the abilities that are learned and off cooldown
ability_actions(s, tbl) ==
    LET t == s.time
    IN  (IF tbl.q_cd < INF /\ s.q_cd_until <= t THEN <<"Q">> ELSE <<>>)
        \o (IF tbl.w_cd < INF /\ s.w_cd_until <= t THEN <<"W">> ELSE <<>>)
        \o (IF tbl.e_cd < INF /\ s.e_cd_until <= t /\ ~e_active(s)
            THEN <<"E_ACTIVATE">> ELSE <<>>)
        \o (IF tbl.r_cd < INF /\ s.r_cd_until <= t /\ s.r_vitals_remaining = 0
            THEN <<"R_ACTIVATE">> ELSE <<>>)

\* lines 455-459: the item actives off cooldown
item_actions(s) ==
    (IF s.has_hydra_active /\ s.hydra_active_cd_until <= s.time
     THEN <<"HYDRA_ACTIVE">> ELSE <<>>)
    \o (IF s.has_stridebreaker /\ s.stridebreaker_cd_until <= s.time
        THEN <<"STRIDEBREAKER">> ELSE <<>>)

\* a slip in line 463: WAIT offered beside other actions whatever the vital
available_actions_wait_always(s, tbl, time_limit) ==
    LET t == s.time
        actions == aa_slot(s) \o ability_actions(s, tbl) \o item_actions(s)
    IN  IF t >= time_limit THEN <<>>
        ELSE IF s.ability_lock_until > t THEN <<"WAIT">>
        ELSE IF actions = <<>> THEN <<"WAIT">>
        ELSE actions \o <<"WAIT">>

\* the legal set of a state with an empty log is the basic attack alone
available_actions_opening_attack(s, tbl, time_limit) ==
    LET t == s.time
        actions == IF s.actions = <<>> /\ aa_slot(s) # <<>> THEN aa_slot(s)
                   ELSE aa_slot(s) \o ability_actions(s, tbl) \o item_actions(s)
    IN  IF t >= time_limit THEN <<>>
        ELSE IF s.ability_lock_until > t THEN <<"WAIT">>
        ELSE IF actions = <<>> THEN <<"WAIT">>
        ELSE IF s.next_vital_at > t /\ s.next_vital_at < time_limit
        THEN actions \o <<"WAIT">>
        ELSE actions

\* _available_actions: the ordered list of actions usable at s.time
available_actions(s, tbl, time_limit) ==
    LET t == s.time
        actions == aa_slot(s) \o ability_actions(s, tbl) \o item_actions(s)
    IN  IF t >= time_limit THEN <<>>
        ELSE IF s.ability_lock_until > t THEN <<"WAIT">>
        ELSE IF actions = <<>> THEN <<"WAIT">>
        ELSE IF s.next_vital_at > t /\ s.next_vital_at < time_limit
        THEN actions \o <<"WAIT">>
        ELSE actions

\* _get_extra_as: extra bonus attack speed (%) from E and Hail of Blades
get_extra_as(s, c, rune) ==
    (IF e_active(s) THEN e_bonus_attack_speed(c) ELSE 0)
    + (IF rune = "HailOfBlades" /\ s.hob_stacks > 0 /\ s.hob_active_until > s.time
       THEN hob_attack_speed_bonus.bonus_attack_speed_value ELSE 0)

-----------------------------------------------------------------------------
(* dps.py: _apply_action *)

\* a slip in WAIT: the horizon is not among the events while another one exists
ApplyWait_past_horizon(s, time_limit) ==
    LET t == s.time
        ev(x) == IF x > t THEN <<x>> ELSE <<>>
        events == ev(s.ability_lock_until) \o ev(s.next_aa_at)
                  \o ev(s.q_cd_until) \o ev(s.w_cd_until) \o ev(s.e_cd_until)
                  \o ev(s.next_vital_at)
    IN  [s EXCEPT !.time = IF events = <<>> THEN time_limit ELSE SeqMin(events)]

\* a slip in lines 511-512: the end of the lock is not among the events
ApplyWait_skips_lock(s, time_limit) ==
    LET t == s.time
        ev(x) == IF x > t THEN <<x>> ELSE <<>>
        events == <<time_limit>> \o ev(s.next_aa_at)
                  \o ev(s.q_cd_until) \o ev(s.w_cd_until) \o ev(s.e_cd_until)
                  \o ev(s.next_vital_at)
    IN  [s EXCEPT !.time = SeqMin(events)]

\* a slip in lines 510-518: >= in place of >, so that a timer ending now is
\* an event to wait for
ApplyWait_nonstrict(s, time_limit) ==
    LET t == s.time
        ev(x) == IF x >= t THEN <<x>> ELSE <<>>
        events == <<time_limit>> \o ev(s.ability_lock_until) \o ev(s.next_aa_at)
                  \o ev(s.q_cd_until) \o ev(s.w_cd_until) \o ev(s.e_cd_until)
                  \o ev(s.next_vital_at)
    IN  [s EXCEPT !.time = SeqMin(events)]

\* a slip in lines 509-519: the clock set to the horizon whatever the events
ApplyWait_to_horizon(s, time_limit) == [s EXCEPT !.time = time_limit]

\* WAIT that leaves an entry in the log
ApplyWait_logged(s, time_limit) ==
    LET t == s.time
        ev(x) == IF x > t THEN <<x>> ELSE <<>>
        events == <<time_limit>> \o ev(s.ability_lock_until) \o ev(s.next_aa_at)
                  \o ev(s.q_cd_until) \o ev(s.w_cd_until) \o ev(s.e_cd_until)
                  \o ev(s.next_vital_at)
    IN  [s EXCEPT !.time = SeqMin(events),
                  !.actions = Append(@, Entry(t, "WAIT", 0, <<>>, 0))]

\* WAIT (lines 508-520): advance the clock to the next event
ApplyWait(s, time_limit) ==
    LET t == s.time
        ev(x) == IF x > t THEN <<x>> ELSE <<>>
        events == <<time_limit>> \o ev(s.ability_lock_until) \o ev(s.next_aa_at)
                  \o ev(s.q_cd_until) \o ev(s.w_cd_until) \o ev(s.e_cd_until)
                  \o ev(s.next_vital_at)
    IN  [s EXCEPT !.time = SeqMin(events)]

\* "Arm spellblade" of R_ACTIVATE and E_ACTIVATE
ArmSpellblade(s) == s.has_spellblade /\ s.spellblade_cd_until <= s.time

\* a slip in line 527: the four vitals there at the cast, not 0.5 s after it
ApplyR_vitals_at_cast(s, tbl) ==
    LET t == s.time
    IN  [s EXCEPT !.ability_lock_until = t,
                  !.r_vitals_remaining = 4,
                  !.r_cd_until = t + tbl.r_cd,
                  !.next_vital_at = t,
                  !.spellblade_armed = IF ArmSpellblade(s) THEN TRUE ELSE @,
                  !.actions = Append(@, Entry(t, "R_ACTIVATE", 0, <<"instant", "4-vitals">>, 0))]

\* R_ACTIVATE (lines 523-533)
ApplyR(s, tbl) ==
    LET t == s.time
    IN  [s EXCEPT !.ability_lock_until = t,
                  !.r_vitals_remaining = 4,
                  !.r_cd_until = t + tbl.r_cd,
                  !.next_vital_at = t + R_VITAL_APPEAR_DELAY,
                  !.spellblade_armed = IF ArmSpellblade(s) THEN TRUE ELSE @,
                  !.actions = Append(@, Entry(t, "R_ACTIVATE", 0, <<"instant", "4-vitals">>, 0))]

\* a slip in line 539: one empowered attack granted in place of two
ApplyE_one_auto(s, tbl) ==
    LET t == s.time
    IN  [s EXCEPT !.ability_lock_until = t,
                  !.next_aa_at = t,
                  !.e_autos_remaining = 1,
                  !.e_expires_at = t + E_WINDOW,
                  !.e_cd_until = t + tbl.e_cd,
                  !.spellblade_armed = IF ArmSpellblade(s) THEN TRUE ELSE @,
                  !.actions = Append(@, Entry(t, "E_ACTIVATE", 0, <<"instant", "AA-reset">>, 0))]

\* E_ACTIVATE (lines 536-546)
ApplyE(s, tbl) ==
    LET t == s.time
    IN  [s EXCEPT !.ability_lock_until = t,
                  !.next_aa_at = t,
                  !.e_autos_remaining = 2,
                  !.e_expires_at = t + E_WINDOW,
                  !.e_cd_until = t + tbl.e_cd,
                  !.spellblade_armed = IF ArmSpellblade(s) THEN TRUE ELSE @,
                  !.actions = Append(@, Entry(t, "E_ACTIVATE", 0, <<"instant", "AA-reset">>, 0))]

\* round(damage * omnivamp, 2) when both are positive; omnivamp in thousandths
OmnivampHeal(damage, c) ==
    IF c.omnivamp > 0 /\ damage > 0 THEN RoundDiv(damage * c.omnivamp, 1000) ELSE 0

\* HYDRA_ACTIVE (lines 549-564)
ApplyHydra(s, tbl, c) ==
    LET t == s.time
        damage == tbl.hydra_active_damage
        action_heal == OmnivampHeal(damage, c)
    IN  [s EXCEPT !.ability_lock_until = t,
                  !.next_aa_at = t,
                  !.hydra_active_cd_until = t + tbl.hydra_active_cd,
                  !.damage_so_far = @ + damage,
                  !.healing_so_far = @ + action_heal,
                  !.actions = Append(@, Entry(t, "HYDRA_ACTIVE", damage,
                                              <<"AA-reset", "dmg">>, action_heal))]

\* Stridebreaker's active as an attack reset
ApplyStridebreaker_resets_attack(s, tbl, c) ==
    LET t == s.time
        damage == tbl.stridebreaker_damage
        action_heal == OmnivampHeal(damage, c)
    IN  [s EXCEPT !.ability_lock_until = t,
                  !.next_aa_at = t,
                  !.stridebreaker_cd_until = t + tbl.stridebreaker_cd,
                  !.damage_so_far = @ + damage,
                  !.healing_so_far = @ + action_heal,
                  !.actions = Append(@, Entry(t, "STRIDEBREAKER", damage, <<"dmg">>, action_heal))]

\* STRIDEBREAKER (lines 567-580)
ApplyStridebreaker(s, tbl, c) ==
    LET t == s.time
        damage == tbl.stridebreaker_damage
        action_heal == OmnivampHeal(damage, c)
    IN  [s EXCEPT !.ability_lock_until = t,
                  !.stridebreaker_cd_until = t + tbl.stridebreaker_cd,
                  !.damage_so_far = @ + damage,
                  !.healing_so_far = @ + action_heal,
                  !.actions = Append(@, Entry(t, "STRIDEBREAKER", damage, <<"dmg">>, action_heal))]

\* a slip in lines 585-629: the cast time taken for the landing time
HitTime_at_cast(s, action, c, rune) == s.time

\* when the damage of an action started at state s lands (hit_time, lines 585-629)
HitTime(s, action, c, rune) ==
    LET wnd == windup_time(c, get_extra_as(s, c, rune))
    IN  CASE action \in {"AA", "E_FIRST", "E_CRIT"} -> s.time + wnd
          [] action = "Q" -> s.time + Q_CAST_TIME
          [] action = "W" -> s.time + W_HIT_TIME
          [] OTHER -> s.time

\* lines 594-632: the action's own damage, lock and cooldown.  A frame holds
\* the locals of _apply_action: s, damage, total (total_action_damage), notes
ActionBase(s, action, tbl, c, rune) ==
    LET t == s.time
        extra_as == get_extra_as(s, c, rune)
        atk_interval == attack_interval(c, extra_as)
        wnd_time == windup_time(c, extra_as)
        damage == get_action_damage(action, tbl, s, rune)
    IN  CASE action = "AA" ->
               [s |-> [s EXCEPT !.ability_lock_until = t + wnd_time,
                                !.next_aa_at = t + atk_interval],
                damage |-> damage, total |-> 0, notes |-> <<>>]
          [] action = "E_FIRST" ->
               [s |-> [s EXCEPT !.ability_lock_until = t + wnd_time,
                                !.next_aa_at = t + atk_interval,
                                !.e_autos_remaining = 1],
                damage |-> damage, total |-> 0, notes |-> <<"E-first">>]
          [] action = "E_CRIT" ->
               [s |-> [s EXCEPT !.ability_lock_until = t + wnd_time,
                                !.next_aa_at = t + atk_interval,
                                !.e_autos_remaining = 0],
                damage |-> damage, total |-> 0, notes |-> <<"E-crit">>]
          [] action = "Q" ->
               [s |-> [s EXCEPT !.ability_lock_until = t + Q_CAST_TIME,
                                !.next_aa_at = t + Q_CAST_TIME,
                                !.q_cd_until = t + tbl.q_cd],
                damage |-> damage, total |-> 0, notes |-> <<"AA-reset">>]
          [] action = "W" ->
               [s |-> [s EXCEPT !.ability_lock_until = t + W_CAST_TIME,
                                !.w_cd_until = t + tbl.w_cd],
                damage |-> damage, total |-> 0, notes |-> <<>>]
          [] OTHER ->
               [s |-> s, damage |-> 0, total |-> 0, notes |-> <<>>]

\* BotRK on-hit damage: current HP * pct * mitigation ratio (float in the
\* program, truncated to hundredths here)
BotrkDamage(s, tbl) == MulRatio(s.target_current_hp, tbl.botrk_pct, tbl.botrk_phys_ratio)

\* lines 636-695: item procs, each block a step on the frame
ItemProcs(f, action, tbl, t, hit_time) ==
    LET is_on_hit == action \in ON_HIT_ACTIONS
        Botrk(g) ==
            IF g.s.has_botrk /\ is_on_hit /\ tbl.botrk_pct > 0
            THEN [g EXCEPT !.damage = @ + BotrkDamage(g.s, tbl),
                           !.notes = Append(@, "BotRK")]
            ELSE g
        OnHit(g) ==
            IF is_on_hit /\ (tbl.on_hit_physical > 0 \/ tbl.on_hit_magic > 0)
            THEN [g EXCEPT !.damage = @ + tbl.on_hit_physical + tbl.on_hit_magic,
                           !.notes = @ \o (IF tbl.on_hit_physical > 0 THEN <<"on-hit-P">> ELSE <<>>)
                                       \o (IF tbl.on_hit_magic > 0 THEN <<"on-hit-M">> ELSE <<>>)]
            ELSE g
        SpellbladeArm(g) ==
            IF g.s.has_spellblade /\ action \in ABILITY_CAST_ACTIONS
               /\ g.s.spellblade_cd_until <= t
            THEN [g EXCEPT !.s.spellblade_armed = TRUE]
            ELSE g
        SpellbladeProc(g) ==
            IF g.s.has_spellblade /\ is_on_hit /\ g.s.spellblade_armed
            THEN [g EXCEPT !.damage = @ + tbl.spellblade_damage,
                           !.s.spellblade_armed = FALSE,
                           !.s.spellblade_cd_until = hit_time + tbl.spellblade_cd,
                           !.notes = Append(@, "Spellblade")]
            ELSE g
        EnergizedProc(g) ==
            IF g.s.has_energized /\ is_on_hit /\ g.s.energized_stacks >= g.s.energized_max
            THEN [g EXCEPT !.damage = @ + tbl.energized_damage,
                           !.s.energized_stacks = 0,
                           !.notes = Append(@, "Energized")]
            ELSE g
        EnergizedStack(g) ==
            IF g.s.has_energized /\ is_on_hit
            THEN [g EXCEPT !.s.energized_stacks =
                               Min(@ + g.s.energized_per_aa, g.s.energized_max)]
            ELSE g
        Kraken(g) ==
            IF g.s.has_kraken /\ is_on_hit
            THEN IF g.s.kraken_hits + 1 >= 3
                 THEN [g EXCEPT !.damage = @ + tbl.kraken_proc,
                                !.s.kraken_hits = 0,
                                !.notes = Append(@, "Kraken")]
                 ELSE [g EXCEPT !.s.kraken_hits = @ + 1]
            ELSE g
        SunderedSky(g) ==
            IF g.s.has_sundered_sky /\ is_on_hit /\ g.s.sundered_sky_cd_until <= t
            THEN [g EXCEPT !.damage = @ + tbl.sundered_sky_bonus,
                           !.s.sundered_sky_cd_until = hit_time + tbl.sundered_sky_cd,
                           !.notes = Append(@, "SunderedSky")]
            ELSE g
        DeadMans(g) ==
            IF g.s.has_dead_mans /\ is_on_hit /\ g.s.dead_mans_available
            THEN [g EXCEPT !.damage = @ + tbl.dead_mans_bonus,
                           !.s.dead_mans_available = FALSE,
                           !.notes = Append(@, "DeadMans")]
            ELSE g
        Burn(g) ==
            IF tbl.liandry_burn > 0 /\ action \in ABILITY_DAMAGE_ACTIONS
            THEN [g EXCEPT !.damage = @ + tbl.liandry_burn, !.notes = Append(@, "Burn")]
            ELSE g
    IN  Then(Then(Then(Then(Then(Then(Then(Then(Then(Botrk(f), OnHit), SpellbladeArm),
            SpellbladeProc), EnergizedProc), EnergizedStack), Kraken), SunderedSky),
            DeadMans), Burn)

VITAL_ACTIONS == {"AA", "E_FIRST", "E_CRIT", "Q", "W"}

\* lines 697-719: the vital proc, decided at the landing time; sets total
VitalProc(f, action, tbl, c, rune, hit_time) ==
    LET Proc(vital) ==
            [f EXCEPT !.total = f.damage + vital[1],
                      !.notes = Append(@, "vital"),
                      !.s.healing_so_far = @ + vital[2],
                      !.s.r_vitals_remaining = IF @ > 0 THEN @ - 1 ELSE @,
                      !.s.next_vital_at =
                          IF f.s.r_vitals_remaining > 1 THEN @
                          ELSE hit_time + VITAL_RESPAWN_DELAY]
    IN  IF action \in VITAL_ACTIONS /\ f.s.next_vital_at <= hit_time
        THEN Proc(get_vital_damage(tbl, f.s, rune))
        ELSE [f EXCEPT !.total = f.damage]

\* a slip in lines 723-727: the proc not latched by pta_exposed
PtaTracking_unlatched(g, action, tbl, rune) ==
    IF rune = "PressTheAttack" /\ action \in ON_HIT_ACTIONS
    THEN IF g.s.pta_hits + 1 >= 3
         THEN [g EXCEPT !.s.pta_hits = @ + 1,
                        !.total = @ + tbl.pta_proc,
                        !.s.pta_exposed = TRUE,
                        !.notes = Append(@, "PtA-proc")]
         ELSE [g EXCEPT !.s.pta_hits = @ + 1]
    ELSE g

\* lines 721-727: Press the Attack counts on-hit actions; the third exposes
\* the target and adds the proc
PtaTracking(g, action, tbl, rune) ==
    IF rune = "PressTheAttack" /\ action \in ON_HIT_ACTIONS
    THEN IF g.s.pta_hits + 1 = 3 /\ ~g.s.pta_exposed
         THEN [g EXCEPT !.s.pta_hits = @ + 1,
                        !.total = @ + tbl.pta_proc,
                        !.s.pta_exposed = TRUE,
                        !.notes = Append(@, "PtA-proc")]
         ELSE [g EXCEPT !.s.pta_hits = @ + 1]
    ELSE g

\* lines 721-757: Press the Attack, Conqueror, Hail of Blades, Grasp, Shojin,
\* each block a step on the frame
RuneTracking(f, action, tbl, rune, t) ==
    LET is_on_hit == action \in ON_HIT_ACTIONS
        Pta(g) == PtaTracking(g, action, tbl, rune)
        Conq(g) ==
            IF rune = "Conqueror" /\ action # "WAIT"
            THEN [g EXCEPT !.s.conq_stacks = Min(@ + 2, 12),
                           !.s.healing_so_far =
                               IF Min(g.s.conq_stacks + 2, 12) >= 12
                               THEN @ + conq_healing(g.total) ELSE @]
            ELSE g
        Hob(g) ==
            IF rune = "HailOfBlades" /\ is_on_hit
            THEN IF g.s.hob_stacks = 0 /\ g.s.hob_active_until <= t
                 THEN [g EXCEPT !.s.hob_stacks = hob_attack_speed_bonus.initial_stacks,
                                !.s.hob_active_until = t + hob_attack_speed_bonus.duration,
                                !.notes = Append(@, "HoB-activated")]
                 ELSE IF g.s.hob_stacks > 0
                 THEN [g EXCEPT !.s.hob_stacks = @ - 1]
                 ELSE g
            ELSE g
        Grasp(g) ==
            IF rune = "GraspOfTheUndying" /\ is_on_hit /\ g.s.grasp_available
            THEN [g EXCEPT !.total = @ + tbl.grasp_proc,
                           !.s.healing_so_far = @ + tbl.grasp_heal,
                           !.s.grasp_available = FALSE,
                           !.notes = Append(@, "Grasp")]
            ELSE g
        Shojin(g) ==
            IF tbl.shojin_amp_per_stack > 0 /\ action \in SHOJIN_ACTIONS
            THEN [g EXCEPT !.s.shojin_stacks = Min(@ + 1, g.s.shojin_max_stacks),
                           !.notes = Append(@, "Shojin")]
            ELSE g
    IN  Then(Then(Then(Then(Pta(f), Conq), Hob), Grasp), Shojin)

\* a slip in lines 763-764: life steal taken on the total of every action
SustainHeal_on_total(f, action, c) ==
    LET ls == IF c.life_steal > 0 /\ f.total > 0 THEN f.total * c.life_steal ELSE 0
        ov == IF c.omnivamp > 0 /\ f.total > 0 THEN f.total * c.omnivamp ELSE 0
    IN  IF ls + ov > 0 THEN RoundDiv(ls + ov, 1000) ELSE 0

\* lines 759-768: life steal on the action's damage, omnivamp on the total;
\* both in thousandths
SustainHeal(f, action, c) ==
    LET ls == IF action \in ON_HIT_ACTIONS /\ c.life_steal > 0 /\ f.damage > 0
              THEN f.damage * c.life_steal ELSE 0
        ov == IF c.omnivamp > 0 /\ f.total > 0 THEN f.total * c.omnivamp ELSE 0
    IN  IF ls + ov > 0 THEN RoundDiv(ls + ov, 1000) ELSE 0

\* lines 582-778: every action that is not WAIT, R_ACTIVATE, E_ACTIVATE,
\* HYDRA_ACTIVE or STRIDEBREAKER
ApplyDamaging(s, action, tbl, c, rune) ==
    LET t == s.time
        hit_time == HitTime(s, action, c, rune)
        Close(f, heal) ==
            [f.s EXCEPT !.healing_so_far = heal,
                        !.damage_so_far = @ + f.total,
                        !.target_current_hp = IF f.s.has_botrk THEN Max(@ - f.total, 0) ELSE @,
                        !.actions = Append(@, Entry(t, action, f.total, f.notes,
                                                    heal - s.healing_so_far))]
        Sustain(f) == Close(f, f.s.healing_so_far + SustainHeal(f, action, c))
        Items(f) == ItemProcs(f, action, tbl, t, hit_time)
        Vital(f) == VitalProc(f, action, tbl, c, rune, hit_time)
        Runes(f) == RuneTracking(f, action, tbl, rune, t)
    IN  Then(Then(Then(Then(ActionBase(s, action, tbl, c, rune), Items), Vital), Runes),
             Sustain)

\* _apply_action(state, action, table, champion, rune, time_limit): a new state
apply_action(s, action, tbl, c, rune, time_limit) ==
    CASE action = "WAIT"          -> ApplyWait(s, time_limit)
      [] action = "R_ACTIVATE"    -> ApplyR(s, tbl)
      [] action = "E_ACTIVATE"    -> ApplyE(s, tbl)
      [] action = "HYDRA_ACTIVE"  -> ApplyHydra(s, tbl, c)
      [] action = "STRIDEBREAKER" -> ApplyStridebreaker(s, tbl, c)
      [] OTHER                    -> ApplyDamaging(s, action, tbl, c, rune)

-----------------------------------------------------------------------------
(* dps.py: the objects behind _apply_action.  A DPSState object holds its    *)
(* fields and a reference to its list of log entries; an assignment to a     *)
(* field or an append to the list changes the object it goes through         *)

\* no object yet
Heap0 == [objs |-> <<>>, lists |-> <<>>]

\* the value of the state object id: its fields, with the entries of its list
Deref(h, id) == [h.objs[id] EXCEPT !.actions = h.lists[@]]

\* a new state object of value v and a new list for its log
NewState(h, v) ==
    [objs |-> Append(h.objs, [v EXCEPT !.actions = Len(h.lists) + 1]),
     lists |-> Append(h.lists, v.actions)]

\* a slip in line 93: the copy keeps the list of the state it was copied from
copy_shares_log(h, id) == [h EXCEPT !.objs = Append(@, h.objs[id])]

\* DPSState.copy (lines 91-94): copy.copy(self), then a list of its own
copy(h, id) ==
    [objs |-> Append(h.objs, [h.objs[id] EXCEPT !.actions = Len(h.lists) + 1]),
     lists |-> Append(h.lists, h.lists[h.objs[id].actions])]

\* the assignments and appends that _apply_action makes through s
StoreThrough(h, s, v) ==
    [objs |-> [h.objs EXCEPT ![s] = [v EXCEPT !.actions = h.objs[s].actions]],
     lists |-> [h.lists EXCEPT ![h.objs[s].actions] = v.actions]]

\* _apply_action on the state object id: s = state.copy() (line 500), every
\* change made through s, and s returned as the last object
apply_action_on(h, id, action, tbl, c, rune, time_limit) ==
    LET Through(h1) ==
            StoreThrough(h1, Len(h1.objs),
                         apply_action(Deref(h1, Len(h1.objs)), action, tbl, c, rune, time_limit))
    IN  Through(copy(h, id))

-----------------------------------------------------------------------------
(* dps.py: search *)

\* a slip in line 932: the quotient cut to two decimals instead of rounded
PerSecond_floor(x, t) == (x * 1000) \div t

\* x / t per second for a time t in milliseconds, to the nearest hundredth
PerSecond(x, t) == RoundDiv(x * 1000, t)

\* _upper_bound_dps(table, champion, extra_as, target_max_hp), damage per second
upper_bound_dps(tbl, c, extra_as, target_max_hp) ==
    LET min_interval == attack_interval(c, extra_as)
        botrk == IF tbl.botrk_pct > 0 /\ target_max_hp > 0
                 THEN MulRatio(target_max_hp, tbl.botrk_pct, tbl.botrk_phys_ratio)
                 ELSE 0
        on_hit_bonus == tbl.on_hit_physical + tbl.on_hit_magic + botrk
        best_aa == Max(Max(Max(tbl.aa, tbl.aa_conq), Max(tbl.aa_pta, tbl.e_crit)),
                       Max(tbl.e_crit_pta, tbl.e_crit_conq))
                   + on_hit_bonus + tbl.spellblade_damage
        aa_dps == PerSecond(best_aa, Max(min_interval, 200))
        q_dps == IF tbl.q_cd < INF
                 THEN PerSecond(Max(Max(tbl.q, tbl.q_conq), tbl.q_pta), Max(Q_CAST_TIME, 100))
                 ELSE 0
        base_dps == Max(aa_dps, q_dps)
        best_passive == Max(Max(tbl.passive, tbl.passive_pta), tbl.passive_conq)
        vital_dps == IF best_passive > 0
                     THEN PerSecond(best_passive, Max(min_interval, 200)) ELSE 0
    IN  base_dps + vital_dps

\* the pruning test (lines 831-833):
\* remaining > 0 and state.damage_so_far + remaining * ub_dps < best.damage_so_far
Pruned(state, b, ub_dps, time_limit) ==
    LET remaining == time_limit - state.time
    IN  /\ remaining > 0
        /\ state.damage_so_far * 1000 + remaining * ub_dps < b.damage_so_far * 1000

\* a slip in lines 844-845: the comparison reversed
UpdateBest_reversed(b, new_state) ==
    IF new_state.damage_so_far < b.damage_so_far THEN new_state ELSE b

\* lines 844-845: a generated state replaces best when it has strictly more damage
UpdateBest(b, new_state) ==
    IF new_state.damage_so_far > b.damage_so_far THEN new_state ELSE b

\* lines 846-847: a generated state is pushed while it is before the horizon
Push(stk, new_state, time_limit) ==
    IF new_state.time < time_limit THEN Append(stk, new_state) ELSE stk

\* lines 842-847: the loop over the actions of a popped state; bb holds the
\* locals stack, best, nodes_explored
RECURSIVE Expand(_, _, _, _, _, _, _)
Expand(bb, state, actions, tbl, c, rune, time_limit) ==
    IF actions = <<>> THEN bb
    ELSE LET With(new_state) ==
                 Expand([bb EXCEPT !.best = UpdateBest(@, new_state),
                                   !.stack = Push(@, new_state, time_limit)],
                        state, Tail(actions), tbl, c, rune, time_limit)
         IN  With(apply_action(state, Head(actions), tbl, c, rune, time_limit))

\* which branch one pass of the while loop takes for the state on top
Branch(bb, ub, time_limit) ==
    LET state == bb.stack[Len(bb.stack)]
    IN  IF Pruned(state, bb.best, ub, time_limit) THEN "prune"
        ELSE IF state.time >= time_limit THEN "leaf"
        ELSE "expand"

\* one pass of the while loop (lines 827-847)
Iteration(bb, tbl, c, rune, time_limit, ub) ==
    LET state == bb.stack[Len(bb.stack)]
        popped == [bb EXCEPT !.stack = SubSeq(@, 1, Len(@) - 1),
                             !.nodes_explored = @ + 1]
        br == Branch(bb, ub, time_limit)
    IN  IF br = "prune" THEN popped
        ELSE IF br = "leaf" THEN [popped EXCEPT !.best = UpdateBest(@, state)]
        ELSE Expand(popped, state, available_actions(state, tbl, time_limit),
                    tbl, c, rune, time_limit)

\* the loop condition (line 826)
Searching(bb) == bb.stack # <<>> /\ bb.nodes_explored < max_nodes

\* lines 821-823
SearchStart(root) == [stack |-> <<root>>, best |-> root, nodes_explored |-> 0]

\* _branch_and_bound run to its return: the locals when the loop ends
RECURSIVE SearchLoop(_, _, _, _, _, _)
SearchLoop(bb, tbl, c, rune, time_limit, ub) ==
    IF Searching(bb)
    THEN SearchLoop(Iteration(bb, tbl, c, rune, time_limit, ub), tbl, c, rune, time_limit, ub)
    ELSE bb

branch_and_bound(root, tbl, c, rune, time_limit) ==
    SearchLoop(SearchStart(root), tbl, c, rune, time_limit,
               upper_bound_dps(tbl, c, c.bonus_AS, root.target_current_hp)).best

-----------------------------------------------------------------------------
(* dps.py: optimize_dps *)

\* one pass of the item loop that initialises the root (lines 998-1020)
RootItem(root, item) ==
    CASE item = "BladeOfTheRuinedKing" -> [root EXCEPT !.has_botrk = TRUE]
      [] item = "SpearOfShojin" -> [root EXCEPT !.shojin_stacks = 0, !.shojin_max_stacks = 4]
      [] item \in SPELLBLADE_ITEMS -> [root EXCEPT !.has_spellblade = TRUE]
      [] item \in ENERGIZED_ITEMS ->
             [root EXCEPT !.has_energized = TRUE, !.energized_per_aa = 6, !.energized_max = 100]
      [] item = "KrakenSlayer" -> [root EXCEPT !.has_kraken = TRUE]
      [] item = "SunderedSky" -> [root EXCEPT !.has_sundered_sky = TRUE]
      [] item = "DeadMansPlate" -> [root EXCEPT !.has_dead_mans = TRUE]
      [] item \in HYDRA_ITEMS -> [root EXCEPT !.has_hydra_active = TRUE]
      [] item = "Stridebreaker" -> [root EXCEPT !.has_stridebreaker = TRUE]
      [] OTHER -> root

RECURSIVE RootItems(_, _)
RootItems(root, items) ==
    IF items = <<>> THEN root ELSE RootItems(RootItem(root, Head(items)), Tail(items))

\* a slip in lines 1027-1029: without r_active the first vital needs the
\* respawn delay
MakeRoot_delayed(L) ==
    LET r0 == [DPSState0 EXCEPT !.target_current_hp = L.target.max_hp]
        r1 == RootItems(r0, L.items)
    IN  IF L.r_active
        THEN [r1 EXCEPT !.r_vitals_remaining = 4, !.next_vital_at = 0, !.r_cd_until = INF]
        ELSE [r1 EXCEPT !.next_vital_at = VITAL_RESPAWN_DELAY]

\* lines 984-1029: the root state of a call with loadout L
MakeRoot(L) ==
    LET r0 == [DPSState0 EXCEPT !.target_current_hp = L.target.max_hp]
        r1 == RootItems(r0, L.items)
    IN  IF L.r_active
        THEN [r1 EXCEPT !.r_vitals_remaining = 4, !.next_vital_at = 0, !.r_cd_until = INF]
        ELSE [r1 EXCEPT !.next_vital_at = 0]

\* line 882: max(champion.attack_interval(), 0.3), the divisor of lost_dps
GreedyInterval(c) == Max(attack_interval(c, 0), 300)

\* lines 873-885: WAIT is scored only while a vital respawns before the horizon
GreedySkips(action, s, time_limit) ==
    action = "WAIT" /\ ~(s.next_vital_at > s.time /\ s.next_vital_at < time_limit)

\* lines 872-901: the score of an action, multiplied by GreedyInterval(c) so
\* that lost_dps = table.aa / interval stays exact
greedy_score(action, s, tbl, c, rune) ==
    LET iv == GreedyInterval(c)
        vital == get_vital_damage(tbl, s, rune)
    IN  CASE action = "WAIT" ->
               (vital[1] + vital[2]) * iv - (s.next_vital_at - s.time) * tbl.aa
          [] action = "HYDRA_ACTIVE"  -> tbl.hydra_active_damage * iv
          [] action = "STRIDEBREAKER" -> tbl.stridebreaker_damage * iv
          [] action = "E_ACTIVATE"    -> tbl.e_crit * 2 * iv
          [] action = "R_ACTIVATE"    -> vital[1] * 3 * iv
          [] OTHER ->
               (get_action_damage(action, tbl, s, rune)
                + (IF s.next_vital_at <= s.time \/ s.r_vitals_remaining > 0
                   THEN vital[1] ELSE 0)) * iv

\* a slip in line 900: >= in place of >, the last action of the highest score
\* kept
RECURSIVE GreedyBest_last_on_ties(_, _, _, _, _, _, _, _)
GreedyBest_last_on_ties(actions, best_action, best_score, s, tbl, c, rune, time_limit) ==
    IF actions = <<>> THEN best_action
    ELSE IF ~GreedySkips(Head(actions), s, time_limit)
            /\ greedy_score(Head(actions), s, tbl, c, rune) >= best_score
    THEN GreedyBest_last_on_ties(Tail(actions), Head(actions),
                                 greedy_score(Head(actions), s, tbl, c, rune),
                                 s, tbl, c, rune, time_limit)
    ELSE GreedyBest_last_on_ties(Tail(actions), best_action, best_score, s, tbl, c, rune,
                                 time_limit)

\* lines 869-904: the for loop; the first action of the highest score is kept
RECURSIVE GreedyBest(_, _, _, _, _, _, _, _)
GreedyBest(actions, best_action, best_score, s, tbl, c, rune, time_limit) ==
    IF actions = <<>> THEN best_action
    ELSE IF ~GreedySkips(Head(actions), s, time_limit)
            /\ greedy_score(Head(actions), s, tbl, c, rune) > best_score
    THEN GreedyBest(Tail(actions), Head(actions), greedy_score(Head(actions), s, tbl, c, rune),
                    s, tbl, c, rune, time_limit)
    ELSE GreedyBest(Tail(actions), best_action, best_score, s, tbl, c, rune, time_limit)

\* the greedy choice among the actions off cooldown, the cast lock ignored
greedy_action_ignores_lock(s, tbl, c, rune, time_limit) ==
    IF aa_slot(s) \o ability_actions(s, tbl) \o item_actions(s) = <<>> THEN "WAIT"
    ELSE GreedyBest(aa_slot(s) \o ability_actions(s, tbl) \o item_actions(s),
                    "WAIT", -100 * GreedyInterval(c), s, tbl, c, rune, time_limit)

\* lines 863-909: the action one pass of the greedy loop applies
greedy_action(s, tbl, c, rune, time_limit) ==
    IF available_actions(s, tbl, time_limit) = <<"WAIT">> THEN "WAIT"
    ELSE GreedyBest(available_actions(s, tbl, time_limit), "WAIT", -100 * GreedyInterval(c),
                    s, tbl, c, rune, time_limit)

\* lines 860-911: the greedy loop run to its end from state s
RECURSIVE greedy_search(_, _, _, _, _)
greedy_search(s, tbl, c, rune, time_limit) ==
    IF s.time >= time_limit THEN s
    ELSE greedy_search(apply_action(s, greedy_action(s, tbl, c, rune, time_limit),
                                    tbl, c, rune, time_limit),
                       tbl, c, rune, time_limit)

\* lines 1038-1045: immolate damage and health regeneration over the fight;
\* round(x * time_limit, 2); round() of a negative product rounds its magnitude
RoundScaled(x, time_limit) ==
    IF time_limit >= 0 THEN RoundDiv(x * time_limit, 1000) ELSE -RoundDiv(x * (-time_limit), 1000)

\* the health regeneration added after the search, the aura damage left out
AfterSearch_without_aura(state, tbl, c, time_limit) ==
    [state EXCEPT !.healing_so_far =
                      IF c.health_regen_per_sec > 0
                      THEN @ + RoundScaled(c.health_regen_per_sec, time_limit)
                      ELSE @]

AfterSearch(state, tbl, c, time_limit) ==
    [state EXCEPT !.damage_so_far =
                      IF tbl.immolate_dps > 0 THEN @ + RoundScaled(tbl.immolate_dps, time_limit)
                      ELSE @,
                  !.healing_so_far =
                      IF c.health_regen_per_sec > 0
                      THEN @ + RoundScaled(c.health_regen_per_sec, time_limit)
                      ELSE @]

\* " > ".join(entry[1] for entry in state.actions), kept as the list of names
SequenceOf(actions) == [i \in 1 .. Len(actions) |-> actions[i].action]

\* a slip in line 932: the guard of the division reversed
format_result_reversed_guard(state, time_limit, method) ==
    [mode |-> "dps_optimize",
     time_limit |-> time_limit,
     method |-> method,
     total_damage |-> state.damage_so_far,
     dps |-> IF time_limit < 0 THEN PerSecond(-state.damage_so_far, -time_limit) ELSE 0,
     total_healing |-> state.healing_so_far,
     action_count |-> Len(state.actions),
     timeline |-> state.actions,
     sequence |-> SequenceOf(state.actions)]

\* _format_result(state, time_limit, method)
format_result(state, time_limit, method) ==
    [mode |-> "dps_optimize",
     time_limit |-> time_limit,
     method |-> method,
     total_damage |-> state.damage_so_far,
     dps |-> IF time_limit > 0 THEN PerSecond(state.damage_so_far, time_limit) ELSE 0,
     total_healing |-> state.healing_so_far,
     action_count |-> Len(state.actions),
     timeline |-> state.actions,
     sequence |-> SequenceOf(state.actions)]

\* lines 975-976
AddItemAS(c, bonus_as) == IF bonus_as > 0 THEN add_stats_AS(c, bonus_as) ELSE c

\* a slip in the finally clause: the attack speed stays on the champion
Restore_forgotten(c, bonus_as) == c

\* lines 1046-1048: the finally clause takes the item attack speed off again
Restore(c, bonus_as) == IF bonus_as > 0 THEN add_stats_AS(c, -bonus_as) ELSE c

\* a slip in line 1031: the threshold itself sent to the greedy search
MethodFor_strict(time_limit) ==
    IF time_limit < BB_THRESHOLD THEN "branch_and_bound" ELSE "greedy"

\* line 1031: which search a horizon gets
MethodFor(time_limit) == IF time_limit <= BB_THRESHOLD THEN "branch_and_bound" ELSE "greedy"

-----------------------------------------------------------------------------
(* The inputs tried: champions, targets and loadouts *)

\* Fiora() of fiora.py: base stats, nothing learned, no bonus
Fiora0 ==
    [base_AD |-> 6600, bonus_AD |-> 0, base_AP |-> 0, bonus_AP |-> 0,
     base_HP |-> 62000, bonus_HP |-> 0, bonus_AS |-> 0, level |-> 1,
     Q |-> 0, W |-> 0, E |-> 0, R |-> 0,
     armor_pen_pct |-> 0, lethality |-> 0, magic_pen_pct |-> 0, magic_pen_flat |-> 0,
     omnivamp |-> 0, life_steal |-> 0, health_regen_per_sec |-> 0]

\* Target(max_hp, armor, mr)
Target(max_hp, armor, mr) == [max_hp |-> max_hp, armor |-> armor, mr |-> mr]

\* the keyword arguments of optimize_dps, with the champion they are used on
Loadout(c, target, rune, r_active, bonus_as, mods, items) ==
    [champion |-> c, target |-> target, rune |-> rune, r_active |-> r_active,
     bonus_as |-> bonus_as, mods |-> mods, items |-> items]

Loadouts ==
    << \* 1: basic attacks only
       Loadout(Fiora0, Target(100000, 0, 0), "None", FALSE, 0, <<>>, <<>>),
       \* 2: W learned
       Loadout([Fiora0 EXCEPT !.W = 1], Target(100000, 0, 0), "None", FALSE, 0, <<>>, <<>>),
       \* 3: Q and E learned, R already active
       Loadout([Fiora0 EXCEPT !.Q = 1, !.E = 1, !.level = 3],
               Target(300000, 5000, 3000), "None", TRUE, 0, <<>>, <<>>),
       \* 4: E learned, Hail of Blades
       Loadout([Fiora0 EXCEPT !.E = 1], Target(100000, 0, 0), "HailOfBlades", FALSE, 0, <<>>, <<>>),
       \* 5: Q learned, Conqueror, 25% bonus attack speed from items
       Loadout([Fiora0 EXCEPT !.Q = 2, !.level = 3, !.bonus_AD = 2000],
               Target(200000, 4000, 3000), "Conqueror", FALSE, 25, <<>>, <<>>),
       \* 6: the whole kit, Press the Attack
       Loadout([Fiora0 EXCEPT !.Q = 3, !.W = 1, !.E = 1, !.R = 1, !.level = 6,
                              !.base_AD = 8250, !.bonus_AD = 4000],
               Target(250000, 8000, 5000), "PressTheAttack", FALSE, 0, <<10>>, <<>>),
       \* 7: Q learned; Blade of the Ruined King, Profane Hydra, Trinity Force
       Loadout([Fiora0 EXCEPT !.Q = 1, !.bonus_AD = 9500, !.bonus_AS = 58,
                              !.life_steal = 100, !.lethality = 1000],
               Target(200000, 6000, 4000), "None", FALSE, 0, <<>>,
               <<"BladeOfTheRuinedKing", "ProfaneHydra", "TrinityForce">>),
       \* 8: E learned, Grasp; Shojin, Kraken, Shiv, Sundered Sky, Dead Man's,
       \*    Liandry, Sunfire, Stridebreaker
       Loadout([Fiora0 EXCEPT !.E = 2, !.level = 5, !.bonus_HP = 75000, !.bonus_AD = 4500,
                              !.omnivamp = 50, !.health_regen_per_sec = 300],
               Target(180000, 3000, 3000), "GraspOfTheUndying", FALSE, 20, <<5>>,
               <<"SpearOfShojin", "KrakenSlayer", "StatikkShiv", "SunderedSky",
                 "DeadMansPlate", "LiandrysTorment", "SunfireAegis", "Stridebreaker">>) >>

\* horizons tried: negative, zero, and up to MaxT steps
Horizons == {HorizonStep * k : k \in -1 .. MaxT}

-----------------------------------------------------------------------------
(* State machine of one or more successive calls of optimize_dps *)

NoResult == [mode |-> "none"]

\* history: the branch the last pass took, whether the search ended on the
\* node ceiling (in this call, in the call before), the greatest damage among
\* the states generated so far, the clock of the state before cur, the search
\* function that was entered
Hist0 ==
    [last |-> "none", truncated |-> FALSE, prevTruncated |-> FALSE, genMax |-> 0,
     prevTime |-> 0, ran |-> "none", offered |-> TRUE]

L == inp.loadout
T == inp.time_limit

\* the bound of the running search (line 819)
Ub == upper_bound_dps(table, champion, champion.bonus_AS, L.target.max_hp)

Locals == [stack |-> stack, best |-> best, nodes_explored |-> nodes_explored]

Init ==
    /\ \E i \in 1 .. Len(Loadouts), t \in Horizons :
          /\ inp = [loadout |-> Loadouts[i], time_limit |-> t]
          /\ champion = Loadouts[i].champion
    /\ callNo = 1
    /\ pc = "call"
    /\ table = DamageTable0
    /\ stack = <<>>
    /\ best = DPSState0
    /\ nodes_explored = 0
    /\ cur = DPSState0
    /\ result = NoResult
    /\ prev = NoResult
    /\ hist = Hist0
    /\ calls = <<>>
    /\ heap = Heap0

\* lines 975-976: the item attack speed is put on the champion
Enter ==
    /\ pc = "call"
    /\ champion' = AddItemAS(champion, L.bonus_as)
    /\ pc' = "build"
    /\ UNCHANGED <<heap, inp, callNo, table, stack, best, nodes_explored, cur, result, prev,
                   hist, calls>>

\* lines 979-982
BuildTable ==
    /\ pc = "build"
    /\ table' = build_damage_table(champion, L)
    /\ pc' = "root"
    /\ UNCHANGED <<heap, champion, inp, callNo, stack, best, nodes_explored, cur, result, prev,
                   hist, calls>>

\* lines 984-1032 and 819-823: the root is made and branch and bound starts
StartSearch ==
    /\ pc = "root"
    /\ MethodFor(T) = "branch_and_bound"
    /\ LET bb == SearchStart(MakeRoot(L))
       IN  /\ stack' = bb.stack
           /\ best' = bb.best
           /\ nodes_explored' = bb.nodes_explored
           /\ cur' = MakeRoot(L)
           /\ hist' = [Hist0 EXCEPT !.genMax = MakeRoot(L).damage_so_far,
                                    !.prevTruncated = hist.prevTruncated,
                                    !.ran = "branch_and_bound"]
    /\ pc' = "bb"
    /\ UNCHANGED <<heap, champion, inp, callNo, table, result, prev, calls>>

RECURSIVE GenMax(_, _, _, _, _, _, _)
GenMax(m, state, actions, tbl, c, rune, time_limit) ==
    IF actions = <<>> THEN m
    ELSE GenMax(Max(m, apply_action(state, Head(actions), tbl, c, rune, time_limit).damage_so_far),
                state, Tail(actions), tbl, c, rune, time_limit)

\* the locals after a pass that popped state and took branch br
Passed(bb, state, br) ==
    /\ stack' = bb.stack
    /\ best' = bb.best
    /\ nodes_explored' = bb.nodes_explored
    /\ cur' = state
    /\ hist' = [hist EXCEPT
                  !.last = br,
                  !.genMax = IF br = "expand"
                             THEN GenMax(@, state, available_actions(state, table, T),
                                         table, champion, L.rune, T)
                             ELSE @]

\* one pass of the while loop, whichever branch it takes
Step == Passed(Iteration(Locals, table, champion, L.rune, T, Ub), stack[Len(stack)],
               Branch(Locals, Ub, T))

\* lines 831-833: the popped state is pruned
BBPrune ==
    /\ pc = "bb"
    /\ Searching(Locals)
    /\ Branch(Locals, Ub, T) = "prune"
    /\ Step
    /\ UNCHANGED <<heap, champion, inp, callNo, pc, table, result, prev, calls>>

\* lines 835-838: the popped state is at the horizon
BBLeaf ==
    /\ pc = "bb"
    /\ Searching(Locals)
    /\ Branch(Locals, Ub, T) = "leaf"
    /\ Step
    /\ UNCHANGED <<heap, champion, inp, callNo, pc, table, result, prev, calls>>

\* lines 840-847: the popped state is expanded
BBExpand ==
    /\ pc = "bb"
    /\ Searching(Locals)
    /\ Branch(Locals, Ub, T) = "expand"
    /\ Step
    /\ UNCHANGED <<heap, champion, inp, callNo, pc, table, result, prev, calls>>

\* line 849: the loop ends, on an empty stack or on the node ceiling
Return ==
    /\ pc = "bb"
    /\ ~Searching(Locals)
    /\ pc' = "exit"
    /\ hist' = [hist EXCEPT !.truncated = (stack # <<>>), !.last = "return"]
    /\ UNCHANGED <<heap, champion, inp, callNo, table, stack, best, nodes_explored, cur, result,
                   prev, calls>>


\* lines 1038-1050
Finish ==
    /\ pc = "exit"
    /\ best' = AfterSearch(best, table, champion, T)
    /\ champion' = Restore(champion, L.bonus_as)
    /\ result' = format_result(best', T, MethodFor(T))
    /\ pc' = "done"
    /\ UNCHANGED <<heap, inp, callNo, table, stack, nodes_explored, cur, prev, hist, calls>>

\* the caller calls again on the same champion object: the same arguments, or
\* the horizon one step longer
NextCall ==
    /\ pc = "done"
    /\ callNo < MaxCalls
    /\ \E t \in {T, T + HorizonStep} : inp' = [inp EXCEPT !.time_limit = t]
    /\ callNo' = callNo + 1
    /\ prev' = result
    /\ hist' = [hist EXCEPT !.prevTruncated = hist.truncated]
    /\ pc' = "call"
    /\ UNCHANGED <<heap, champion, table, stack, best, nodes_explored, cur, result, calls>>

Next ==
    \/ Enter
    \/ BuildTable
    \/ StartSearch
    \/ BBPrune
    \/ BBLeaf
    \/ BBExpand
    \/ Return
    \/ Finish
    \/ NextCall

Spec == Init /\ [][Next]_vars

-----------------------------------------------------------------------------
(* Calls on both sides of the threshold between the two searches             *)

\* horizons at, just under and just over the 10 s threshold, and the empty one
MethodHorizons ==
    {0, BB_THRESHOLD - HorizonStep, BB_THRESHOLD, BB_THRESHOLD + 1,
     BB_THRESHOLD + HorizonStep}

InitMethod ==
    /\ \E i \in 1 .. Len(Loadouts), t \in MethodHorizons :
          /\ inp = [loadout |-> Loadouts[i], time_limit |-> t]
          /\ champion = Loadouts[i].champion
    /\ callNo = 1
    /\ pc = "call"
    /\ table = DamageTable0
    /\ stack = <<>>
    /\ best = DPSState0
    /\ nodes_explored = 0
    /\ cur = DPSState0
    /\ result = NoResult
    /\ prev = NoResult
    /\ hist = Hist0
    /\ calls = <<>>
    /\ heap = Heap0

\* lines 984-1029 and 1034-1036: the root is made and the greedy search starts
StartGreedy ==
    /\ pc = "root"
    /\ MethodFor(T) = "greedy"
    /\ cur' = MakeRoot(L)
    /\ hist' = [Hist0 EXCEPT !.prevTruncated = hist.prevTruncated, !.ran = "greedy"]
    /\ pc' = "greedy"
    /\ UNCHANGED <<heap, champion, inp, callNo, table, stack, best, nodes_explored, result,
                   prev, calls>>

\* lines 862-909: one pass of the greedy loop
GreedyStep ==
    /\ pc = "greedy"
    /\ cur.time < T
    /\ cur' = apply_action(cur, greedy_action(cur, table, champion, L.rune, T),
                           table, champion, L.rune, T)
    /\ hist' = [hist EXCEPT !.prevTime = cur.time]
    /\ UNCHANGED <<heap, champion, inp, callNo, pc, table, stack, best, nodes_explored, result,
                   prev, calls>>

\* line 911: the greedy loop ends at the horizon
GreedyReturn ==
    /\ pc = "greedy"
    /\ cur.time >= T
    /\ best' = cur
    /\ pc' = "exit"
    /\ hist' = [hist EXCEPT !.last = "return"]
    /\ UNCHANGED <<heap, champion, inp, callNo, table, stack, nodes_explored, cur, result,
                   prev, calls>>

NextMethod ==
    \/ Enter
    \/ BuildTable
    \/ StartSearch
    \/ BBPrune
    \/ BBLeaf
    \/ BBExpand
    \/ Return
    \/ StartGreedy
    \/ GreedyStep
    \/ GreedyReturn
    \/ Finish
    \/ NextCall

SpecMethod == InitMethod /\ [][NextMethod]_vars

-----------------------------------------------------------------------------
(* The same calls, and those of a champion whose attack and Q deal the same  *)
(* damage, so that the greedy search meets two actions of one score          *)

InitPick ==
    /\ \E lo \in {Loadouts[i] : i \in 1 .. Len(Loadouts)}
                 \cup {Loadout([Fiora0 EXCEPT !.base_AD = 7000, !.Q = 1],
                                Target(100000, 0, 0), "None", FALSE, 0, <<>>, <<>>)},
          t \in MethodHorizons :
          /\ inp = [loadout |-> lo, time_limit |-> t]
          /\ champion = lo.champion
    /\ callNo = 1
    /\ pc = "call"
    /\ table = DamageTable0
    /\ stack = <<>>
    /\ best = DPSState0
    /\ nodes_explored = 0
    /\ cur = DPSState0
    /\ result = NoResult
    /\ prev = NoResult
    /\ hist = Hist0
    /\ calls = <<>>
    /\ heap = Heap0

SpecPick == InitPick /\ [][NextMethod]_vars

-----------------------------------------------------------------------------
(* Calls with nothing but the basic attack: no ability learned, no rune, no  *)
(* item, the attack interval set by the champion's bonus attack speed        *)

\* bonus attack speed in percent: intervals of 1449, 1000 and 599 ms
AASpeeds == <<0, 45, 142>>

\* the target's maximum health: a vital worth less, or more, than an attack
AATargets == <<100000, 500000>>

AALoadout(k, h) ==
    Loadout([Fiora0 EXCEPT !.bonus_AS = AASpeeds[k]], Target(AATargets[h], 0, 0),
            "None", FALSE, 0, <<>>, <<>>)

\* horizons from 0 to 5 s, multiples of the 1000 ms interval among them
AAHorizons == {5 * HorizonStep * k : k \in 0 .. MaxT \div 2}

InitAA ==
    /\ \E k \in 1 .. Len(AASpeeds), h \in 1 .. Len(AATargets), t \in AAHorizons :
          /\ inp = [loadout |-> AALoadout(k, h), time_limit |-> t]
          /\ champion = AALoadout(k, h).champion
    /\ callNo = 1
    /\ pc = "call"
    /\ table = DamageTable0
    /\ stack = <<>>
    /\ best = DPSState0
    /\ nodes_explored = 0
    /\ cur = DPSState0
    /\ result = NoResult
    /\ prev = NoResult
    /\ hist = Hist0
    /\ calls = <<>>
    /\ heap = Heap0

SpecAA == InitAA /\ [][Next]_vars

-----------------------------------------------------------------------------
(* Legal runs: every state reachable from the root by the actions that       *)
(* _available_actions offers, one _apply_action at a time                    *)

InitSim ==
    /\ \E i \in 1 .. Len(Loadouts), t \in Horizons :
          /\ inp = [loadout |-> Loadouts[i], time_limit |-> t]
          /\ champion = AddItemAS(Loadouts[i].champion, Loadouts[i].bonus_as)
    /\ table = build_damage_table(champion, L)
    /\ cur = MakeRoot(L)
    /\ pc = "sim"
    /\ callNo = 1
    /\ stack = <<>>
    /\ best = DPSState0
    /\ nodes_explored = 0
    /\ result = NoResult
    /\ prev = NoResult
    /\ hist = Hist0
    /\ calls = <<>>
    /\ heap = Heap0

SimStep ==
    /\ pc = "sim"
    /\ \E i \in 1 .. Len(available_actions(cur, table, T)) :
          cur' = apply_action(cur, available_actions(cur, table, T)[i],
                              table, champion, L.rune, T)
    /\ hist' = [hist EXCEPT !.prevTime = cur.time]
    /\ UNCHANGED <<heap, champion, inp, callNo, pc, table, stack, best, nodes_explored, result,
                   prev, calls>>

NextSim == SimStep

SpecSim == InitSim /\ [][NextSim]_vars

-----------------------------------------------------------------------------
(* Runs that are carried on: the legal runs, and the calls on both sides of  *)
(* the threshold, in which a step is taken whenever one can be.  Both search *)
(* loops go on while their condition holds (lines 826 and 862) and nothing   *)
(* in them waits on anything outside, hence the weak fairness.               *)

\* the legal runs on a negative, an empty, a middle and the longest horizon
InitRuns ==
    \/ InitSim /\ T \in {-HorizonStep, 0, (MaxT \div 2) * HorizonStep, MaxT * HorizonStep}
    \/ InitMethod

NextRuns == NextSim \/ NextMethod

SpecRuns == InitRuns /\ [][NextRuns]_vars /\ WF_vars(NextRuns)

-----------------------------------------------------------------------------
(* Legal runs longer than the 4 s window of E                                *)

\* horizons past the end of a window opened in the first half second
LongHorizons == {E_WINDOW + 10 * HorizonStep, E_WINDOW + 20 * HorizonStep}

\* the two loadouts with E learned and nothing offered beside Q, E and attacks
InitLong ==
    /\ \E i \in {3, 4}, t \in LongHorizons :
          /\ inp = [loadout |-> Loadouts[i], time_limit |-> t]
          /\ champion = AddItemAS(Loadouts[i].champion, Loadouts[i].bonus_as)
    /\ table = build_damage_table(champion, L)
    /\ cur = MakeRoot(L)
    /\ pc = "sim"
    /\ callNo = 1
    /\ stack = <<>>
    /\ best = DPSState0
    /\ nodes_explored = 0
    /\ result = NoResult
    /\ prev = NoResult
    /\ hist = Hist0
    /\ calls = <<>>
    /\ heap = Heap0

SpecLong == InitLong /\ [][NextSim]_vars

-----------------------------------------------------------------------------
(* Legal runs of loadouts that isolate one mechanism each, so that what an   *)
(* action deals and heals can be written out from the damage table           *)

KitLoadouts ==
    << \* 1: Q, W and E learned; Spear of Shojin alone
       Loadout([Fiora0 EXCEPT !.Q = 1, !.W = 1, !.E = 1, !.level = 3],
               Target(100000, 0, 0), "None", FALSE, 0, <<>>, <<"SpearOfShojin">>),
       \* 2: Q, W and E learned; 10% life steal and 5% omnivamp
       Loadout([Fiora0 EXCEPT !.Q = 1, !.W = 1, !.E = 1, !.level = 3,
                              !.life_steal = 100, !.omnivamp = 50],
               Target(100000, 2000, 1000), "None", FALSE, 0, <<>>, <<>>),
       \* 3: Q, W and E learned; Conqueror, 100% bonus attack speed from items
       Loadout([Fiora0 EXCEPT !.Q = 1, !.W = 1, !.E = 1, !.level = 3, !.bonus_AD = 2000],
               Target(200000, 4000, 3000), "Conqueror", FALSE, 100, <<>>, <<>>),
       \* 4: Q and E learned; Press the Attack, Recurve Bow alone
       Loadout([Fiora0 EXCEPT !.Q = 1, !.E = 1, !.level = 3],
               Target(100000, 2000, 1000), "PressTheAttack", FALSE, 0, <<>>,
               <<"RecurveBow">>) >>

InitKit ==
    /\ \E i \in 1 .. Len(KitLoadouts), t \in {60 * HorizonStep, 80 * HorizonStep} :
          /\ inp = [loadout |-> KitLoadouts[i], time_limit |-> t]
          /\ champion = AddItemAS(KitLoadouts[i].champion, KitLoadouts[i].bonus_as)
    /\ table = build_damage_table(champion, L)
    /\ cur = MakeRoot(L)
    /\ pc = "sim"
    /\ callNo = 1
    /\ stack = <<>>
    /\ best = DPSState0
    /\ nodes_explored = 0
    /\ result = NoResult
    /\ prev = NoResult
    /\ hist = Hist0
    /\ calls = <<>>
    /\ heap = Heap0

SpecKit == InitKit /\ [][NextSim]_vars

-----------------------------------------------------------------------------
(* _apply_action called directly, with any action name, on a state of a     *)
(* legal run                                                                 *)

\* the action names of dps.py, and one that is none of them
ActionNames ==
    {"AA", "E_FIRST", "E_CRIT", "Q", "W", "E_ACTIVATE", "R_ACTIVATE", "HYDRA_ACTIVE",
     "STRIDEBREAKER", "WAIT", "DANCE"}

ApplyHorizons == {HorizonStep * 10, HorizonStep * 20}

InitApply ==
    /\ \E i \in 1 .. Len(Loadouts), t \in ApplyHorizons :
          /\ inp = [loadout |-> Loadouts[i], time_limit |-> t]
          /\ champion = AddItemAS(Loadouts[i].champion, Loadouts[i].bonus_as)
    /\ table = build_damage_table(champion, L)
    /\ cur = MakeRoot(L)
    /\ pc = "sim"
    /\ callNo = 1
    /\ stack = <<>>
    /\ best = DPSState0
    /\ nodes_explored = 0
    /\ result = NoResult
    /\ prev = NoResult
    /\ hist = Hist0
    /\ calls = <<>>
    /\ heap = Heap0

\* lines 489-778: _apply_action looks at the action name only; the state it
\* returns is kept, and the run goes on from it if the action was offered
ApplyAny ==
    /\ pc = "sim"
    /\ \E a \in ActionNames :
          /\ cur' = apply_action(cur, a, table, champion, L.rune, T)
          /\ hist' = [hist EXCEPT
                        !.prevTime = cur.time,
                        !.last = a,
                        !.offered = \E k \in DOMAIN available_actions(cur, table, T) :
                                        available_actions(cur, table, T)[k] = a]
    /\ pc' = IF hist'.offered THEN "sim" ELSE "applied"
    /\ UNCHANGED <<heap, champion, inp, callNo, table, stack, best, nodes_explored, result,
                   prev, calls>>

SpecApply == InitApply /\ [][ApplyAny]_vars

-----------------------------------------------------------------------------
(* _apply_action on state objects that stay referenced, as the states of the *)
(* branch-and-bound stack do while their siblings and descendants are        *)
(* expanded                                                                  *)

InitHeap ==
    /\ \E i \in 1 .. Len(Loadouts) :
          /\ inp = [loadout |-> Loadouts[i], time_limit |-> 20 * HorizonStep]
          /\ champion = AddItemAS(Loadouts[i].champion, Loadouts[i].bonus_as)
    /\ table = build_damage_table(champion, L)
    /\ heap = NewState(Heap0, MakeRoot(L))
    /\ cur = MakeRoot(L)
    /\ pc = "heap"
    /\ callNo = 1
    /\ stack = <<>>
    /\ best = DPSState0
    /\ nodes_explored = 0
    /\ result = NoResult
    /\ prev = NoResult
    /\ hist = Hist0
    /\ calls = <<>>

\* lines 840-847: an action offered in a state object is applied to it; the
\* object stays referenced, the state returned is a further object
ApplyOn ==
    /\ pc = "heap"
    /\ Len(heap.objs) < MaxObjs
    /\ \E id \in 1 .. Len(heap.objs) :
          \E k \in 1 .. Len(available_actions(Deref(heap, id), table, T)) :
             /\ heap' = apply_action_on(heap, id,
                                        available_actions(Deref(heap, id), table, T)[k],
                                        table, champion, L.rune, T)
             /\ cur' = Deref(heap, id)
    /\ UNCHANGED <<champion, inp, callNo, pc, table, stack, best, nodes_explored, result,
                   prev, hist, calls>>

SpecHeap == InitHeap /\ [][ApplyOn]_vars

-----------------------------------------------------------------------------
(* Interleaved calls: two calls of optimize_dps handed the same champion      *)
(* object, each with its own keyword arguments, their steps in any order.    *)
(* A step is the code between two accesses of the champion's mutable stats.  *)

\* horizons of the interleaved calls
ConcHorizons == {HorizonStep * 4, HorizonStep * 16}

\* the locals of a call that has not started
Call0(Lo, time_limit) ==
    [pc |-> "call", L |-> Lo, time_limit |-> time_limit, table |-> DamageTable0,
     conq_ad |-> 0, best |-> DPSState0, result |-> NoResult]

\* loadout j used on another champion object
OnChampion(Lo, c) == [Lo EXCEPT !.champion = c]

InitConc ==
    /\ \E i \in 1 .. Len(Loadouts), j \in 1 .. Len(Loadouts),
          t1 \in ConcHorizons, t2 \in ConcHorizons :
          /\ inp = [loadout |-> Loadouts[i], time_limit |-> t1]
          /\ champion = Loadouts[i].champion
          /\ calls = <<Call0(Loadouts[i], t1),
                       Call0(OnChampion(Loadouts[j], Loadouts[i].champion), t2)>>
    /\ pc = "conc"
    /\ heap = Heap0
    /\ callNo = 2
    /\ table = DamageTable0
    /\ stack = <<>>
    /\ best = DPSState0
    /\ nodes_explored = 0
    /\ cur = DPSState0
    /\ result = NoResult
    /\ prev = NoResult
    /\ hist = Hist0

ConcFrame == <<heap, inp, callNo, pc, table, stack, best, nodes_explored, cur, result, prev, hist>>

\* lines 975-976 of call k
CEnter(k) ==
    /\ calls[k].pc = "call"
    /\ champion' = AddItemAS(champion, calls[k].L.bonus_as)
    /\ calls' = [calls EXCEPT ![k].pc = "build"]
    /\ UNCHANGED ConcFrame

\* build_damage_table of call k up to the Conqueror block (lines 173-314)
CBuildBase(k) ==
    /\ calls[k].pc = "build"
    /\ calls' = [calls EXCEPT
                   ![k].table = TableBeforeConq(champion, calls[k].L),
                   ![k].pc = IF calls[k].L.rune = "Conqueror" THEN "conq_add" ELSE "tail"]
    /\ UNCHANGED <<champion, ConcFrame>>

\* lines 318-320: the Conqueror bonus AD is put on the champion
CConqAdd(k) ==
    /\ calls[k].pc = "conq_add"
    /\ champion' = add_stats_AD(champion, conq_stat_bonus(champion))
    /\ calls' = [calls EXCEPT ![k].conq_ad = conq_stat_bonus(champion),
                              ![k].pc = "conq_read"]
    /\ UNCHANGED ConcFrame

\* lines 322-335: the Conqueror variants are read from the champion
CConqRead(k) ==
    /\ calls[k].pc = "conq_read"
    /\ calls' = [calls EXCEPT
                   ![k].table = TableConq(@, champion, calls[k].L.target, calls[k].L.mods),
                   ![k].pc = "conq_restore"]
    /\ UNCHANGED <<champion, ConcFrame>>

\* lines 336-337: the finally clause takes the bonus AD off again
CConqRestore(k) ==
    /\ calls[k].pc = "conq_restore"
    /\ champion' = add_stats_AD(champion, -calls[k].conq_ad)
    /\ calls' = [calls EXCEPT ![k].pc = "tail"]
    /\ UNCHANGED ConcFrame

\* the table of call k when build_damage_table returns
CTable(k) == TableAfterConq(calls[k].table, champion, calls[k].L)

\* lines 339-346, 984-1036: the rest of the table, the root and the search,
\* which reads the champion's attack speed
CSearch(k) ==
    /\ calls[k].pc = "tail"
    /\ MethodFor(calls[k].time_limit) = "branch_and_bound"
    /\ calls' = [calls EXCEPT
                   ![k].table = CTable(k),
                   ![k].best = branch_and_bound(MakeRoot(calls[k].L), CTable(k), champion,
                                                calls[k].L.rune, calls[k].time_limit),
                   ![k].pc = "exit"]
    /\ UNCHANGED <<champion, ConcFrame>>

\* lines 1038-1050 of call k
CFinish(k) ==
    /\ calls[k].pc = "exit"
    /\ champion' = Restore(champion, calls[k].L.bonus_as)
    /\ calls' = [calls EXCEPT
                   ![k].best = AfterSearch(@, calls[k].table, champion, calls[k].time_limit),
                   ![k].result = format_result(
                                     AfterSearch(calls[k].best, calls[k].table, champion,
                                                 calls[k].time_limit),
                                     calls[k].time_limit, MethodFor(calls[k].time_limit)),
                   ![k].pc = "done"]
    /\ UNCHANGED ConcFrame

NextConc ==
    \E k \in 1 .. 2 :
        \/ CEnter(k)
        \/ CBuildBase(k)
        \/ CConqAdd(k)
        \/ CConqRead(k)
        \/ CConqRestore(k)
        \/ CSearch(k)
        \/ CFinish(k)

SpecConc == InitConc /\ [][NextConc]_vars

-----------------------------------------------------------------------------
(* What the claims speak of *)

RECURSIVE SeqMax(_)
SeqMax(q) == IF Len(q) = 1 THEN q[1] ELSE Max(q[1], SeqMax(Tail(q)))

\* the greatest damage_so_far over all states reachable from s by legal actions
RECURSIVE MaxDamageFrom(_, _, _, _, _)
MaxDamageFrom(s, tbl, c, rune, time_limit) ==
    LET actions == available_actions(s, tbl, time_limit)
    IN  IF actions = <<>> THEN s.damage_so_far
        ELSE SeqMax([i \in 1 .. Len(actions) |->
                        MaxDamageFrom(apply_action(s, actions[i], tbl, c, rune, time_limit),
                                      tbl, c, rune, time_limit)] \o <<s.damage_so_far>>)

\* the times of a log are non-decreasing in log order
LogOrdered(actions) ==
    \A i \in 1 .. Len(actions) - 1 : actions[i].time <= actions[i + 1].time

\* the shortest time an action of the loadout needs to land its damage:
\* basic-attack windup, Q cast time, W hit time; item actives land at once
ShortestLanding(c, Lo) ==
    LET cc == AddItemAS(c, Lo.bonus_as)
    IN  SeqMin(<<windup_time(cc, 0)>>
               \o (IF cc.Q > 0 THEN <<Q_CAST_TIME>> ELSE <<>>)
               \o (IF cc.W > 0 THEN <<W_HIT_TIME>> ELSE <<>>)
               \o (IF \E i \in 1 .. Len(Lo.items) :
                         Lo.items[i] \in HYDRA_ITEMS \cup {"Stridebreaker"}
                   THEN <<0>> ELSE <<>>))

\* what a result says about the search, apart from what the search found
SearchReport(r) == [mode |-> r.mode, method |-> r.method]

\* C1: when a branch-and-bound search ends below the node ceiling, the state
\* it returns has the greatest damage any legal action sequence reaches.
C1_ReturnsMaximum ==
    (pc = "exit" /\ ~hist.truncated)
        => best.damage_so_far = MaxDamageFrom(MakeRoot(L), table, champion, L.rune, T)

\* C2: the pruning bound is admissible: at every state the search pops before
\* the horizon, remaining time times the bound is at least the greatest
\* damage a legal sequence can still add.
C2_BoundAdmissible ==
    (pc = "bb" /\ hist.last \in {"prune", "expand"})
        => (T - cur.time) * Ub
              >= (MaxDamageFrom(cur, table, champion, L.rune, T) - cur.damage_so_far) * 1000

C5_Monotone ==
    (pc = "done" /\ callNo >= 2 /\ prev.time_limit < result.time_limit
       /\ prev.method = result.method)
        => result.total_damage >= prev.total_damage

\* C6: a positive horizon shorter than the shortest landing time of the
\* loadout's actions returns no action and no damage.
C6_NothingLands ==
    (pc = "done" /\ T > 0 /\ T < ShortestLanding(champion, L))
        => result.action_count = 0 /\ result.total_damage = 0

C8_CeilingReturnsBest ==
    (pc = "exit" /\ hist.truncated)
        => /\ nodes_explored = max_nodes
           /\ best.damage_so_far = hist.genMax

C8_Witness ==
    /\ pc = "exit" /\ hist.truncated /\ stack # <<>>
    /\ best.damage_so_far > 0 /\ best.damage_so_far = hist.genMax

\* C9: of two results, one from a search the ceiling cut short and one from a
\* search that ran to completion, the reports on the search differ.
C9_TruncationReported ==
    (pc = "done" /\ callNo >= 2 /\ hist.prevTruncated # hist.truncated)
        => SearchReport(prev) # SearchReport(result)

\* what a call with loadout Lo and horizon time_limit returns when it runs
\* alone on the champion c
RunAlone(c, Lo, time_limit) ==
    LET c1 == AddItemAS(c, Lo.bonus_as)
        tbl == build_damage_table(c1, Lo)
    IN  format_result(
            AfterSearch(branch_and_bound(MakeRoot(Lo), tbl, c1, Lo.rune, time_limit),
                        tbl, c1, time_limit),
            time_limit, MethodFor(time_limit))

\* C10: each of two interleaved calls handed the same champion object returns
\* the result it returns when it runs alone.
C10_Independent ==
    \A k \in 1 .. Len(calls) :
        calls[k].pc = "done"
            => calls[k].result = RunAlone(inp.loadout.champion, calls[k].L, calls[k].time_limit)

\* C11: a call with time_limit <= 10 s (10 s included) runs branch and bound,
\* every longer horizon runs the greedy search, and the 'method' field of the
\* result names the search that was run
C11_MethodNamesSearch ==
    pc = "done" =>
        /\ result.method = hist.ran
        /\ (hist.ran = "branch_and_bound") = (T <= BB_THRESHOLD)
        /\ (hist.ran = "greedy") = (T > BB_THRESHOLD)

\* a call at the threshold that ran branch and bound, followed on the same
\* champion by a call one step over it that ran the greedy search
C11_Witness ==
    /\ pc = "done"
    /\ callNo = 2
    /\ prev.time_limit = BB_THRESHOLD
    /\ prev.method = "branch_and_bound"
    /\ result.method = "greedy"
    /\ hist.ran = "greedy"
    /\ result.action_count > 0

C13_EqualAttacks ==
    pc = "done" /\ T > 0 =>
        /\ result.action_count = T \div attack_interval(champion, 0) + 1
        /\ \A i \in 1 .. Len(result.timeline) :
              /\ result.timeline[i].action = "AA"
              /\ result.timeline[i].damage = result.timeline[1].damage

\* C13: with no ability learned, no rune and no item the returned timeline of a
\* call with T > 0 holds basic attacks only, at most floor(T/I)+1 of them, the
\* first at time 0 with the vital proc, each logged with the basic-attack
\* damage or with that damage plus the vital damage
C13_BasicAttackTimeline ==
    pc = "done" /\ T > 0 =>
        /\ result.action_count <= T \div attack_interval(champion, 0) + 1
        /\ \A i \in 1 .. Len(result.timeline) :
              /\ result.timeline[i].action = "AA"
              /\ result.timeline[i].damage \in {table.aa, table.aa + table.passive}
        /\ result.timeline # <<>> =>
              /\ result.timeline[1].time = 0
              /\ result.timeline[1].damage = table.aa + table.passive

\* the 5 s horizon with an interval of about 0.6 s: nine basic attacks, with
\* and without the vital proc
C13_Witness ==
    /\ pc = "done"
    /\ T = 100 * HorizonStep
    /\ attack_interval(champion, 0) < 600
    /\ result.action_count = 9
    /\ \E i, j \in 1 .. Len(result.timeline) :
          /\ result.timeline[i].damage = table.aa
          /\ result.timeline[j].damage = table.aa + table.passive

\* whether a log entry carries a note
HasNote(e, note) == \E k \in DOMAIN e.notes : e.notes[k] = note

\* how many of the first i entries of a log are on-hit actions
OnHitCount(log, i) == Cardinality({j \in 1 .. i : log[j].action \in ON_HIT_ACTIONS})

\* the unexposed damage of an on-hit action in the table
PlainDamage(tbl, action) ==
    CASE action \in {"AA", "E_FIRST"} -> tbl.aa
      [] action = "Q" -> tbl.q
      [] action = "E_CRIT" -> tbl.e_crit

\* C14: with Press the Attack, in every legal run the proc is on the third
\* on-hit action of the log and on no other entry (so at most once), its damage
\* added to that entry's logged damage; a log with fewer than three on-hit
\* actions has no proc
C14_PtaOnThirdHit ==
    pc = "sim" /\ L.rune = "PressTheAttack" =>
        \A i \in 1 .. Len(cur.actions) :
            LET e == cur.actions[i]
                third == e.action \in ON_HIT_ACTIONS /\ OnHitCount(cur.actions, i) = 3
            IN  /\ HasNote(e, "PtA-proc") <=> third
                /\ third =>
                      e.damage = PlainDamage(table, e.action) + table.pta_proc
                                 + (IF HasNote(e, "vital") THEN table.passive ELSE 0)

\* a run with four on-hit actions, the third with the proc
C14_Witness ==
    /\ pc = "sim"
    /\ L.rune = "PressTheAttack"
    /\ table.pta_proc > 0
    /\ cur.actions # <<>>
    /\ OnHitCount(cur.actions, Len(cur.actions)) = 4
    /\ \E i \in 1 .. Len(cur.actions) : HasNote(cur.actions[i], "PtA-proc")

\* how many of the first i entries of a log are vital-consuming kinds of action
VitalActionCount(log, i) == Cardinality({j \in 1 .. i : log[j].action \in VITAL_ACTIONS})

\* whether R_ACTIVATE is among the first i entries of a log
RCastBy(log, i) == \E j \in 1 .. i : log[j].action = "R_ACTIVATE"

\* C15 as stated: with r_active the vital is there at time 0 and the first
\* damaging action consumes it; without r_active no vital is consumed before
\* the respawn delay has passed
C15_VitalDelayedWithoutFlag ==
    pc = "sim" =>
        \A i \in 1 .. Len(cur.actions) :
            IF L.r_active
            THEN cur.actions[i].action \in VITAL_ACTIONS /\ VitalActionCount(cur.actions, i) = 1
                    => HasNote(cur.actions[i], "vital")
            ELSE HasNote(cur.actions[i], "vital") /\ ~RCastBy(cur.actions, i)
                    => cur.actions[i].time + W_HIT_TIME >= VITAL_RESPAWN_DELAY

\* C15: with r_active and without it alike the vital is available at time 0:
\* in every legal run the first damaging action consumes a vital unless an
\* R_ACTIVATE was cast before it; with r_active the first four damaging
\* actions all consume one, with no respawn delay between them
C15_VitalAtStart ==
    pc = "sim" =>
        \A i \in 1 .. Len(cur.actions) :
            /\ cur.actions[i].action \in VITAL_ACTIONS
               /\ VitalActionCount(cur.actions, i) = 1
               /\ ~RCastBy(cur.actions, i)
                  => HasNote(cur.actions[i], "vital")
            /\ L.r_active
               /\ cur.actions[i].action \in VITAL_ACTIONS
               /\ VitalActionCount(cur.actions, i) <= 4
                  => HasNote(cur.actions[i], "vital")

\* without r_active, a run whose first action, at time 0, consumed the vital,
\* and whose next damaging action found none
C15_Witness ==
    /\ pc = "sim"
    /\ ~L.r_active
    /\ Len(cur.actions) >= 2
    /\ cur.actions[1].time = 0
    /\ HasNote(cur.actions[1], "vital")
    /\ cur.actions[2].action \in VITAL_ACTIONS
    /\ ~HasNote(cur.actions[2], "vital")

\* a state before the horizon with a lock running
Locked(s, time_limit) == s.time < time_limit /\ s.ability_lock_until > s.time

\* the times a WAIT from state s can stop at
WaitEvents(s, time_limit) ==
    {x \in {time_limit, s.ability_lock_until, s.next_aa_at, s.q_cd_until, s.w_cd_until,
            s.e_cd_until, s.next_vital_at} : x > s.time}

\* C16 as stated: in a locked state before the horizon only WAIT is offered,
\* and the step taken from it logs nothing and sets the clock to
\* min(ability_lock_until, T)
C16_WaitToLockEnd ==
    [][pc = "sim" /\ Locked(cur, T) =>
          /\ available_actions(cur, table, T) = <<"WAIT">>
          /\ cur'.actions = cur.actions
          /\ cur'.time = Min(cur.ability_lock_until, T)]_vars

\* C16: in a locked state before the horizon only WAIT is offered, and the step
\* taken from it changes nothing but the clock, which it sets to the earliest
\* of the horizon, the end of the lock and the pending timers (attack timer,
\* Q, W and E cooldowns, vital respawn): later than before and never beyond
\* min(ability_lock_until, T); no other action starts during a lock
C16_WaitWithinLock ==
    [][pc = "sim" /\ Locked(cur, T) =>
          /\ available_actions(cur, table, T) = <<"WAIT">>
          /\ cur' = [cur EXCEPT !.time = cur'.time]
          /\ cur'.time \in WaitEvents(cur, T)
          /\ \A x \in WaitEvents(cur, T) : cur'.time <= x
          /\ cur.time < cur'.time
          /\ cur'.time <= Min(cur.ability_lock_until, T)]_vars

\* a WAIT has moved the clock to a time at which the lock is still running
C16_Witness ==
    /\ pc = "sim"
    /\ hist.prevTime < cur.time
    /\ Locked(cur, T)
    /\ cur.time \in {cur.next_aa_at, cur.q_cd_until, cur.next_vital_at}

\* whether _available_actions offers action a in the current state
Offered(a) ==
    \E k \in DOMAIN available_actions(cur, table, T) : available_actions(cur, table, T)[k] = a

\* whether _available_actions offers an action other than WAIT
OffersOther ==
    \E k \in DOMAIN available_actions(cur, table, T) : available_actions(cur, table, T)[k] # "WAIT"

\* the current state is before the horizon and not locked
Unlocked == cur.time < T /\ cur.ability_lock_until <= cur.time

\* C17: in an unlocked state before the horizon in which some action other
\* than WAIT is offered, WAIT is offered too exactly when the vital is not
\* there yet and appears strictly before the horizon
C17_WaitBesideActions ==
    pc = "sim" /\ Unlocked /\ OffersOther =>
        (Offered("WAIT") <=> (cur.time < cur.next_vital_at /\ cur.next_vital_at < T))

\* an unlocked state, reached by a WAIT, in which both the basic attack and
\* WAIT are offered
C17_Witness ==
    /\ pc = "sim"
    /\ Unlocked
    /\ hist.prevTime < cur.time
    /\ Offered("AA")
    /\ Offered("WAIT")

\* how many of AA, E_FIRST and E_CRIT _available_actions offers
AttackKindsOffered == Cardinality({a \in {"AA", "E_FIRST", "E_CRIT"} : Offered(a)})

\* C18: _available_actions never offers more than one of AA, E_FIRST and
\* E_CRIT; in an unlocked state before the horizon whose attack timer has
\* elapsed it offers exactly one: E_FIRST if two empowered attacks remain and
\* the window of E has not expired, E_CRIT if one remains and it has not
\* expired, AA otherwise
C18_OneAttackKind ==
    pc = "sim" =>
        /\ AttackKindsOffered <= 1
        /\ Unlocked /\ cur.next_aa_at <= cur.time =>
              /\ AttackKindsOffered = 1
              /\ Offered("E_FIRST") <=>
                    (cur.e_autos_remaining = 2 /\ cur.time < cur.e_expires_at)
              /\ Offered("E_CRIT") <=>
                    (cur.e_autos_remaining = 1 /\ cur.time < cur.e_expires_at)

\* the window of E ran out with an empowered attack left: a plain basic attack
\* is offered
C18_Witness ==
    /\ pc = "sim"
    /\ Unlocked
    /\ cur.next_aa_at <= cur.time
    /\ cur.e_autos_remaining > 0
    /\ cur.time >= cur.e_expires_at
    /\ Offered("AA")

\* the actions of an ability whose table cooldown is the sentinel
Unavailable(tbl) ==
    (IF tbl.q_cd = INF THEN {"Q"} ELSE {})
    \cup (IF tbl.w_cd = INF THEN {"W"} ELSE {})
    \cup (IF tbl.e_cd = INF THEN {"E_ACTIVATE", "E_FIRST", "E_CRIT"} ELSE {})
    \cup (IF tbl.r_cd = INF THEN {"R_ACTIVATE"} ELSE {})

\* C19: in every state of a legal run no action of an ability whose table
\* cooldown is the 'unavailable' sentinel is offered, and none is in the log;
\* for E these are E_ACTIVATE, E_FIRST and E_CRIT
C19_UnlearnedNeverUsed ==
    pc = "sim" =>
        \A a \in Unavailable(table) :
            /\ ~Offered(a)
            /\ \A i \in 1 .. Len(cur.actions) : cur.actions[i].action # a

\* a run of three logged actions with Q, E and R unavailable and W learned,
\* at a state where the abilities are looked at
C19_Witness ==
    /\ pc = "sim"
    /\ Unavailable(table) = {"Q", "E_ACTIVATE", "E_FIRST", "E_CRIT", "R_ACTIVATE"}
    /\ Unlocked
    /\ Len(cur.actions) >= 3

\* C20: _apply_action called with an action that _available_actions does not
\* offer for the state ends in a fatal error: no state is ever returned for
\* an action that was not offered
C20_UnofferedIsFatal == pc = "applied" => hist.offered

\* C21: _apply_action never changes the state it is given, nor any state made
\* before: after the call every state object that existed has the fields and
\* the action log it had
C21_InputUntouched ==
    [][\A id \in 1 .. Len(heap.objs) :
          /\ id <= Len(heap'.objs)
          /\ Deref(heap', id) = Deref(heap, id)]_vars

\* two states made from one parent by different actions, the parent kept
C21_Witness ==
    /\ pc = "heap"
    /\ Len(heap.objs) >= 3
    /\ Deref(heap, 1).actions = <<>>
    /\ Len(Deref(heap, 2).actions) = 1
    /\ Len(Deref(heap, 3).actions) = 1
    /\ Deref(heap, 2).actions # Deref(heap, 3).actions

\* the step of a legal run logged an action: the entry it appended
Logged == pc = "sim" /\ Len(cur'.actions) = Len(cur.actions) + 1
NewEntry == cur'.actions[Len(cur'.actions)]

\* cast time plus the delay of the action: the windup of an attack at the
\* attack speed of the moment, the cast time of Q, the hit time of W
LandingTime(s, action) ==
    s.time + (CASE action = "Q" -> Q_CAST_TIME
                [] action = "W" -> W_HIT_TIME
                [] OTHER -> windup_time(champion, get_extra_as(s, champion, L.rune)))

\* C22: for AA, E_FIRST, E_CRIT, Q and W cast at time t and landing at h, the
\* vital procs exactly when next_vital_at <= h, and a proc after which no R
\* vital remains sets next_vital_at to h + VITAL_RESPAWN_DELAY
C22_VitalAtLanding ==
    [][Logged /\ NewEntry.action \in VITAL_ACTIONS =>
          /\ HasNote(NewEntry, "vital")
                <=> cur.next_vital_at <= LandingTime(cur, NewEntry.action)
          /\ HasNote(NewEntry, "vital") /\ cur'.r_vitals_remaining = 0
                => cur'.next_vital_at
                     = LandingTime(cur, NewEntry.action) + VITAL_RESPAWN_DELAY]_vars

\* with no R vitals in the run, the last action consumed the normal vital on
\* landing, and the respawn is counted from the landing, which lies after the
\* cast
C22_Witness ==
    /\ pc = "sim"
    /\ cur.actions # <<>>
    /\ cur.actions[Len(cur.actions)].time = cur.time
    /\ cur.actions[Len(cur.actions)].action \in {"Q", "W"}
    /\ HasNote(cur.actions[Len(cur.actions)], "vital")
    /\ cur.r_vitals_remaining = 0
    /\ ~L.r_active
    /\ ~RCastBy(cur.actions, Len(cur.actions))
    /\ cur.next_vital_at > cur.time + VITAL_RESPAWN_DELAY

\* damage amplified by Spear of Shojin at a given number of stacks
AmpAt(dmg, stacks) == RoundDiv(dmg * (100 + stacks * table.shojin_amp_per_stack), 100)

\* what a stack-granting action deals with Shojin alone: its table damage and,
\* with a vital, the passive's, both amplified by the given stack count
ShojinDeals(e, stacks) ==
    AmpAt(IF e.action = "W" THEN table.w ELSE PlainDamage(table, e.action), stacks)
    + (IF HasNote(e, "vital") THEN AmpAt(table.passive, stacks) ELSE 0)

ShojinAlone == L.items = <<"SpearOfShojin">> /\ L.rune = "None"

\* C23: with Spear of Shojin, the damage of Q, W, E_FIRST and E_CRIT and of the
\* vital they trigger is amplified by the stack count held before the action,
\* and the action raises the count by one up to shojin_max_stacks
C23_ShojinAmpBeforeStack ==
    [][Logged /\ ShojinAlone /\ NewEntry.action \in SHOJIN_ACTIONS
         => /\ NewEntry.damage = ShojinDeals(NewEntry, cur.shojin_stacks)
            /\ cur'.shojin_stacks = Min(cur.shojin_stacks + 1, cur.shojin_max_stacks)
            /\ cur.shojin_stacks <= cur.shojin_max_stacks]_vars

\* a stack-granting action with a vital dealt the damage of two stacks and
\* left three, and three stacks would have dealt more
C23_Witness ==
    /\ pc = "sim"
    /\ ShojinAlone
    /\ cur.actions # <<>>
    /\ cur.actions[Len(cur.actions)].action \in SHOJIN_ACTIONS
    /\ HasNote(cur.actions[Len(cur.actions)], "vital")
    /\ cur.shojin_stacks = 3
    /\ cur.shojin_max_stacks > 3
    /\ cur.actions[Len(cur.actions)].damage = ShojinDeals(cur.actions[Len(cur.actions)], 2)
    /\ cur.actions[Len(cur.actions)].damage < ShojinDeals(cur.actions[Len(cur.actions)], 3)

\* a loadout whose only healing is the vital's, life steal and omnivamp
SustainAlone ==
    /\ L.items = <<>>
    /\ L.rune = "None"
    /\ champion.life_steal > 0
    /\ champion.omnivamp > 0

\* the healing of a logged entry beyond the vital's own heal
SustainOf(e) == e.healing - (IF HasNote(e, "vital") THEN table.passive_heal ELSE 0)

\* the damage of a logged entry before the vital is added
BeforeVital(e) == e.damage - (IF HasNote(e, "vital") THEN table.passive ELSE 0)

\* C24 as stated: life steal and omnivamp are each taken on the total damage
\* of every damaging action, summed and rounded once
C24_SustainOnTotal ==
    [][Logged /\ SustainAlone /\ NewEntry.damage > 0
         => SustainOf(NewEntry)
              = RoundDiv(NewEntry.damage * (champion.life_steal + champion.omnivamp),
                         1000)]_vars

\* C24: omnivamp is taken on the total damage of every damaging action; life
\* steal is taken on the damage before the vital and rune procs are added, and
\* only for AA, E_FIRST, E_CRIT and Q; the two are summed and rounded once
C24_SustainSplit ==
    [][Logged /\ SustainAlone /\ NewEntry.damage > 0
         => SustainOf(NewEntry)
              = RoundDiv(NewEntry.damage * champion.omnivamp
                         + (IF NewEntry.action \in {"AA", "E_FIRST", "E_CRIT", "Q"}
                            THEN BeforeVital(NewEntry) * champion.life_steal
                            ELSE 0),
                         1000)]_vars

\* an on-hit action with a vital healed by life steal on its own damage and
\* omnivamp on the total, less than both on the total
C24_Witness ==
    /\ pc = "sim"
    /\ SustainAlone
    /\ cur.actions # <<>>
    /\ cur.actions[Len(cur.actions)].action \in ON_HIT_ACTIONS
    /\ HasNote(cur.actions[Len(cur.actions)], "vital")
    /\ SustainOf(cur.actions[Len(cur.actions)])
         = RoundDiv(cur.actions[Len(cur.actions)].damage * champion.omnivamp
                    + BeforeVital(cur.actions[Len(cur.actions)]) * champion.life_steal,
                    1000)
    /\ SustainOf(cur.actions[Len(cur.actions)])
         < RoundDiv(cur.actions[Len(cur.actions)].damage
                    * (champion.life_steal + champion.omnivamp), 1000)

\* C25 as stated: once an action has set the lock, ability_lock_until is never
\* before the clock
C25_LockNeverBeforeClock ==
    pc = "sim" /\ cur.actions # <<>> => cur.ability_lock_until >= cur.time

\* C25: every action that sets the lock leaves ability_lock_until >= time, and
\* a WAIT taken while the lock runs does not pass its end; a state whose lock
\* lies before the clock is entered only by a WAIT from a state whose lock had
\* already ended
C25_LockPassedOnlyWhenEnded ==
    [][pc = "sim"
         => /\ Logged => cur'.ability_lock_until >= cur'.time
            /\ cur.ability_lock_until > cur.time /\ ~Logged
                 => cur'.time <= cur'.ability_lock_until
            /\ cur'.ability_lock_until < cur'.time
                 => ~Logged /\ cur.ability_lock_until <= cur.time]_vars

\* after an action set the lock, a WAIT to its end and a second WAIT, the
\* clock is past the lock
C25_Witness ==
    /\ pc = "sim"
    /\ cur.actions # <<>>
    /\ cur.actions[Len(cur.actions)].time < cur.ability_lock_until
    /\ cur.ability_lock_until <= hist.prevTime
    /\ hist.prevTime < cur.time

\* a legal run has ended: no action is legal
RunOver == pc = "sim" /\ available_actions(cur, table, T) = <<>>

\* the greedy search has returned
GreedyOver == pc = "exit" /\ hist.ran = "greedy"

GreedyOffers == available_actions(cur, table, T)

\* the places in GreedyOffers of the actions the loop scores: every action but
\* a WAIT with no vital to respawn before the horizon
GreedyScored ==
    {i \in DOMAIN GreedyOffers :
        GreedyOffers[i] = "WAIT" => cur.next_vital_at > cur.time /\ cur.next_vital_at < T}

ScoreAt(i) == greedy_score(GreedyOffers[i], cur, table, champion, L.rune)

\* the first place among the scored ones that no scored place outscores
GreedyPick ==
    CHOOSE i \in GreedyScored :
        /\ \A j \in GreedyScored : ScoreAt(j) <= ScoreAt(i)
        /\ \A j \in GreedyScored : j < i => ScoreAt(j) < ScoreAt(i)

\* the action a step applied, read from the log: an appended entry, or WAIT
AppliedName == IF Len(cur'.actions) > Len(cur.actions) THEN NewEntry.action ELSE "WAIT"

\* C27: where the legal set is not just WAIT, a pass of _greedy_search applies
\* the first legal action of the highest score (WAIT scored only while a vital
\* respawns before the horizon, and applied when nothing was scored); the next
\* state is that action's one successor and the log grows only by appending
C27_GreedyTakesBest ==
    [][pc = "greedy" /\ pc' = "greedy"
         => /\ GreedyOffers # <<"WAIT">> /\ GreedyScored # {}
                 => /\ AppliedName = GreedyOffers[GreedyPick]
                    /\ cur' = apply_action(cur, GreedyOffers[GreedyPick], table, champion,
                                           L.rune, T)
            /\ GreedyOffers = <<"WAIT">> \/ GreedyScored = {} => AppliedName = "WAIT"
            /\ Len(cur'.actions) >= Len(cur.actions)
            /\ SubSeq(cur'.actions, 1, Len(cur.actions)) = cur.actions]_vars

\* at the root the attack and Q, both castable, had one score, the highest,
\* and the greedy loop applied the attack, offered first
C27_Witness ==
    /\ pc = "greedy"
    /\ champion.Q > 0
    /\ table.aa = table.q
    /\ Len(cur.actions) = 1
    /\ cur.actions[1].action = "AA"
    /\ cur.actions[1].time = 0
    /\ cur.q_cd_until = 0

\* the places of E_ACTIVATE in the log, and the last of them (0 if none)
ECasts == {i \in DOMAIN cur.actions : cur.actions[i].action = "E_ACTIVATE"}
LastECast == IF ECasts = {} THEN 0 ELSE CHOOSE i \in ECasts : \A j \in ECasts : j <= i

\* how many empowered attacks the log holds after the last E_ACTIVATE
EmpoweredSince ==
    Cardinality({i \in LastECast + 1 .. Len(cur.actions) :
                    cur.actions[i].action \in {"E_FIRST", "E_CRIT"}})

\* E was cast less than 4 s ago and fewer than two empowered attacks followed
WindowOpen ==
    /\ LastECast > 0
    /\ cur.time < cur.actions[LastECast].time + E_WINDOW
    /\ EmpoweredSince < 2

ATTACK_SLOT == {"AA", "E_FIRST", "E_CRIT", "E_ACTIVATE"}

\* C28: while the window of the last E_ACTIVATE is open the attack slot offers
\* E_FIRST, and E_CRIT once E_FIRST was used, and E_ACTIVATE is not offered;
\* with the window closed, by two empowered attacks or by 4 s, the slot offers
\* the plain attack; in the log every E_CRIT follows an E_FIRST that follows
\* an E_ACTIVATE less than 4 s before the E_CRIT, with no attack and no
\* E_ACTIVATE between the three
C28_WindowOfE ==
    pc = "sim" =>
        /\ Unlocked /\ cur.next_aa_at <= cur.time =>
              /\ Offered("E_FIRST") <=> (WindowOpen /\ EmpoweredSince = 0)
              /\ Offered("E_CRIT") <=> (WindowOpen /\ EmpoweredSince = 1)
              /\ Offered("AA") <=> ~WindowOpen
        /\ WindowOpen => ~Offered("E_ACTIVATE")
        /\ \A i \in DOMAIN cur.actions :
              cur.actions[i].action = "E_CRIT" =>
                  \E e \in 1 .. i - 1, j \in 1 .. i - 1 :
                      /\ e < j
                      /\ cur.actions[e].action = "E_ACTIVATE"
                      /\ cur.actions[j].action = "E_FIRST"
                      /\ cur.actions[i].time < cur.actions[e].time + E_WINDOW
                      /\ \A k \in e + 1 .. i - 1 :
                            k # j => cur.actions[k].action \notin ATTACK_SLOT

\* both empowered attacks were used and a plain attack followed, all within
\* 4 s of the E_ACTIVATE
C28_Witness ==
    /\ pc = "sim"
    /\ LastECast > 0
    /\ EmpoweredSince = 2
    /\ cur.actions[Len(cur.actions)].action = "AA"
    /\ cur.actions[Len(cur.actions)].time < cur.actions[LastECast].time + E_WINDOW
    /\ \E i \in LastECast + 1 .. Len(cur.actions) : cur.actions[i].action = "E_CRIT"

\* the place of the last R_ACTIVATE in a log (0 if none)
LastRCast(log) ==
    IF \E i \in DOMAIN log : log[i].action = "R_ACTIVATE"
    THEN CHOOSE i \in DOMAIN log :
            /\ log[i].action = "R_ACTIVATE"
            /\ \A j \in DOMAIN log : log[j].action = "R_ACTIVATE" => j <= i
    ELSE 0

\* how many entries after the last R_ACTIVATE of a log procced a vital
ProcsSinceR(log) ==
    Cardinality({i \in LastRCast(log) + 1 .. Len(log) : HasNote(log[i], "vital")})

\* when the vitals of the last R_ACTIVATE of a log appear
RVitalsAt(log) == log[LastRCast(log)].time + R_VITAL_APPEAR_DELAY

\* C29: after R_ACTIVATE at t a hit landing before t + R_VITAL_APPEAR_DELAY
\* procs no vital; each of the next four vital-eligible hits landing at or
\* after it procs one, the first three leaving next_vital_at as it is and the
\* fourth setting it to its landing plus VITAL_RESPAWN_DELAY; while fewer than
\* four have procced R_ACTIVATE is not offered
C29_FourVitalsOfR ==
    [][pc = "sim" /\ LastRCast(cur.actions) > 0
         => /\ ProcsSinceR(cur.actions) < 4 => ~Offered("R_ACTIVATE")
            /\ Logged /\ NewEntry.action \in VITAL_ACTIONS
                 => /\ LandingTime(cur, NewEntry.action) < RVitalsAt(cur.actions)
                         => ~HasNote(NewEntry, "vital")
                    /\ LandingTime(cur, NewEntry.action) >= RVitalsAt(cur.actions)
                       /\ ProcsSinceR(cur.actions) < 4
                         => /\ HasNote(NewEntry, "vital")
                            /\ cur'.next_vital_at =
                                 IF ProcsSinceR(cur.actions) < 3
                                 THEN RVitalsAt(cur.actions)
                                 ELSE LandingTime(cur, NewEntry.action)
                                      + VITAL_RESPAWN_DELAY]_vars

\* after an R_ACTIVATE a hit that landed too early procced nothing, four later
\* hits procced a vital each, and the normal respawn delay is running
C29_Witness ==
    /\ pc = "sim"
    /\ LastRCast(cur.actions) > 0
    /\ ProcsSinceR(cur.actions) = 4
    /\ HasNote(cur.actions[Len(cur.actions)], "vital")
    /\ cur.next_vital_at > cur.time + VITAL_RESPAWN_DELAY
    /\ \E i \in LastRCast(cur.actions) + 1 .. Len(cur.actions) :
          /\ cur.actions[i].action \in VITAL_ACTIONS
          /\ ~HasNote(cur.actions[i], "vital")
          /\ cur.actions[i].time < RVitalsAt(cur.actions)

\* the table damage of a damaging action, at full Conqueror stacks or below
ConqDamage(action, full) ==
    CASE action \in {"AA", "E_FIRST"} -> IF full THEN table.aa_conq ELSE table.aa
      [] action = "Q" -> IF full THEN table.q_conq ELSE table.q
      [] action = "W" -> IF full THEN table.w_conq ELSE table.w
      [] action = "E_CRIT" -> IF full THEN table.e_crit_conq ELSE table.e_crit

\* Conqueror with no item: the only damage is the table's and the vital's, the
\* only healing the vital's and Conqueror's
ConquerorAlone == L.rune = "Conqueror" /\ L.items = <<>>

\* C30: with Conqueror conq_stacks is one of 0, 2, ..., 12 and never falls; AA,
\* E_FIRST, E_CRIT, Q and W raise it by 2 up to 12 and no other action changes
\* it; the action and its vital deal the max-stack damage exactly when the
\* count was 12 before the action, and Conqueror heals, 8% of the action's
\* damage, exactly when the count is 12 after it
C30_ConquerorStacks ==
    [][pc = "sim" /\ ConquerorAlone
         => /\ cur.conq_stacks \in {0, 2, 4, 6, 8, 10, CONQ_MAX_STACKS}
            /\ cur'.conq_stacks >= cur.conq_stacks
            /\ cur'.conq_stacks =
                 IF Logged /\ NewEntry.action \in {"AA", "E_FIRST", "E_CRIT", "Q", "W"}
                 THEN Min(cur.conq_stacks + 2, CONQ_MAX_STACKS)
                 ELSE cur.conq_stacks
            /\ Logged /\ NewEntry.action \in {"AA", "E_FIRST", "E_CRIT", "Q", "W"}
                 => /\ NewEntry.damage
                         = ConqDamage(NewEntry.action, cur.conq_stacks = CONQ_MAX_STACKS)
                           + (IF ~HasNote(NewEntry, "vital") THEN 0
                              ELSE IF cur.conq_stacks = CONQ_MAX_STACKS
                              THEN table.passive_conq ELSE table.passive)
                    /\ NewEntry.healing
                         = (IF ~HasNote(NewEntry, "vital") THEN 0
                            ELSE IF cur.conq_stacks = CONQ_MAX_STACKS
                            THEN table.passive_heal_conq ELSE table.passive_heal)
                           + (IF cur'.conq_stacks = CONQ_MAX_STACKS
                              THEN RoundDiv(NewEntry.damage * 8, 100) ELSE 0)]_vars

\* the sixth damaging action filled the stacks, healed and dealt the plain
\* damage; the seventh dealt the max-stack damage, which is more
C30_Witness ==
    /\ pc = "sim"
    /\ ConquerorAlone
    /\ cur.conq_stacks = CONQ_MAX_STACKS
    /\ Cardinality({i \in DOMAIN cur.actions : cur.actions[i].damage > 0}) = 7
    /\ cur.actions[Len(cur.actions)].damage
         >= ConqDamage(cur.actions[Len(cur.actions)].action, TRUE)
    /\ ConqDamage(cur.actions[Len(cur.actions)].action, TRUE)
         > ConqDamage(cur.actions[Len(cur.actions)].action, FALSE)
    /\ \E i \in 1 .. Len(cur.actions) - 1 :
          /\ cur.actions[i].damage > 0
          /\ Cardinality({j \in 1 .. i : cur.actions[j].damage > 0}) = 6
          /\ cur.actions[i].healing >= RoundDiv(cur.actions[i].damage * 8, 100)
          /\ cur.actions[i].healing > 0
          /\ ~HasNote(cur.actions[i], "vital")
          /\ cur.actions[i].damage = ConqDamage(cur.actions[i].action, FALSE)

\* a damage value under the 8% exposure of Press the Attack
Exposed(dmg) == RoundDiv(dmg * 108, 100)

\* the exposed table damage of an on-hit action
ExposedDamage(tbl, action) ==
    CASE action \in {"AA", "E_FIRST"} -> tbl.aa_pta
      [] action = "Q" -> tbl.q_pta
      [] action = "E_CRIT" -> tbl.e_crit_pta

\* C31: once pta_exposed is set it stays set, and every damage component of a
\* later action is amplified by the exposure: with Recurve Bow alone an on-hit
\* action on an exposed target deals its exposed table damage, the exposed
\* vital damage and the exposed on-hit damage of the item
C31_ExposureAmplifiesAll ==
    [][pc = "sim" /\ L.rune = "PressTheAttack"
         => /\ cur.pta_exposed => cur'.pta_exposed
            /\ Logged /\ cur.pta_exposed /\ L.items = <<"RecurveBow">>
               /\ NewEntry.action \in ON_HIT_ACTIONS
                 => NewEntry.damage
                      = ExposedDamage(table, NewEntry.action)
                        + (IF HasNote(NewEntry, "vital") THEN table.passive_pta ELSE 0)
                        + Exposed(table.on_hit_physical)]_vars

\* the successor of the current state under a legal action
Successor(a) == apply_action(cur, a, table, champion, L.rune, T)

\* the log of s extends the log of the current state by n entries
ExtendsLogBy(s, n) ==
    /\ Len(s.actions) = Len(cur.actions) + n
    /\ SubSeq(s.actions, 1, Len(cur.actions)) = cur.actions

\* C32: along every transition damage_so_far and healing_so_far do not
\* decrease, and the successor's log is the predecessor's log with no entry
\* (WAIT) or exactly one entry (any other action) appended
C32_LogGrowsOnly ==
    pc = "sim" =>
      \A k \in DOMAIN available_actions(cur, table, T) :
        LET a == available_actions(cur, table, T)[k]
            s == Successor(a)
        IN  /\ s.damage_so_far >= cur.damage_so_far
            /\ s.healing_so_far >= cur.healing_so_far
            /\ ExtendsLogBy(s, IF a = "WAIT" THEN 0 ELSE 1)
            /\ a # "WAIT" => s.actions[Len(s.actions)].action = a

\* a WAIT has advanced the clock of a run with two logged actions and some
\* healing, and both WAIT and a logged action are legal now
C32_Witness ==
    /\ pc = "sim"
    /\ Len(cur.actions) >= 2
    /\ hist.prevTime < cur.time
    /\ cur.healing_so_far > 0
    /\ Offered("WAIT")
    /\ OffersOther

\* the set of the legal actions of state s
LegalSet(s) ==
    {available_actions(s, table, T)[k] : k \in DOMAIN available_actions(s, table, T)}

ABILITY_COOLDOWNS == {"q_cd_until", "w_cd_until", "e_cd_until", "r_cd_until"}
BASIC_ATTACKS == {"AA", "E_FIRST", "E_CRIT"}

\* timer values before, at and after the clock of the current state
TimerValues == {0, cur.time, cur.time + 1, INF}

\* C33: a basic attack is legal or not whatever the Q/W/E/R cooldowns are, and
\* Q, W, E_ACTIVATE and R_ACTIVATE are legal or not whatever next_aa_at is
C33_LegalityFrame ==
    pc = "sim" =>
      /\ \A f \in ABILITY_COOLDOWNS : \A v \in TimerValues :
            LegalSet([cur EXCEPT ![f] = v]) \cap BASIC_ATTACKS
              = LegalSet(cur) \cap BASIC_ATTACKS
      /\ \A v \in TimerValues :
            LegalSet([cur EXCEPT !.next_aa_at = v]) \cap ABILITY_CAST_ACTIONS
              = LegalSet(cur) \cap ABILITY_CAST_ACTIONS

\* C33: a basic attack leaves every ability cooldown unchanged, W leaves
\* next_aa_at unchanged, and an action other than a basic attack that changes
\* next_aa_at is one of the attack resets Q, E_ACTIVATE and HYDRA_ACTIVE
C33_EffectFrame ==
    pc = "sim" =>
      \A k \in DOMAIN available_actions(cur, table, T) :
        LET a == available_actions(cur, table, T)[k]
            s == Successor(a)
        IN  /\ a \in BASIC_ATTACKS => \A f \in ABILITY_COOLDOWNS : s[f] = cur[f]
            /\ a = "W" => s.next_aa_at = cur.next_aa_at
            /\ a \notin BASIC_ATTACKS /\ s.next_aa_at # cur.next_aa_at
                 => a \in {"Q", "E_ACTIVATE", "HYDRA_ACTIVE"}

\* C33: the frame conditions of legality and of effect together
C33_Frame == C33_LegalityFrame /\ C33_EffectFrame

\* a basic attack is legal while Q and W are on cooldown after their casts
C33_Witness ==
    /\ pc = "sim"
    /\ \E i \in DOMAIN cur.actions : cur.actions[i].action = "W"
    /\ cur.q_cd_until > cur.time
    /\ cur.w_cd_until > cur.time
    /\ Offered("AA")
    /\ ~Offered("Q")

\* Stridebreaker's active is legal while the basic attack is on cooldown
C33_WitnessItem ==
    /\ pc = "sim"
    /\ Offered("STRIDEBREAKER")
    /\ cur.next_aa_at > cur.time

\* a state without its log
NoLog(s) == [s EXCEPT !.actions = <<>>]

\* logs other than the log of the current state
OtherLogs ==
    {<<>>, Append(cur.actions, Entry(cur.time, "Q", 0, <<>>, 0))}
      \cup (IF cur.actions = <<>> THEN {} ELSE {Tail(cur.actions)})

\* C34: a state that differs from the current one in the action log only has
\* the same legal actions and the same greedy choice, and every legal action
\* takes the two to successors that differ in the log only
C34_LogNeverRead ==
    pc = "sim" =>
      \A log \in OtherLogs \ {cur.actions} :
        LET other == [cur EXCEPT !.actions = log]
        IN  /\ available_actions(other, table, T) = available_actions(cur, table, T)
            /\ cur.time < T
                 => greedy_action(other, table, champion, L.rune, T)
                      = greedy_action(cur, table, champion, L.rune, T)
            /\ \A k \in DOMAIN available_actions(cur, table, T) :
                  NoLog(apply_action(other, available_actions(cur, table, T)[k],
                                     table, champion, L.rune, T))
                    = NoLog(Successor(available_actions(cur, table, T)[k]))

\* a state with a log of two entries or more in which greedy has a choice
\* between three legal actions
C34_Witness ==
    /\ pc = "sim"
    /\ Len(cur.actions) >= 2
    /\ cur.time < T
    /\ Len(available_actions(cur, table, T)) >= 3

\* action a is legal in state s
LegalIn(s, a) ==
    \E k \in DOMAIN available_actions(s, table, T) : available_actions(s, table, T)[k] = a

\* the entries of log replay from state s as a legal run: before an entry
\* logged later than the clock a WAIT is legal and taken, and at the entry's
\* time its action is legal and leaves that very entry in the log
RECURSIVE LegalReplay(_, _)
LegalReplay(s, log) ==
    IF log = <<>> THEN TRUE
    ELSE IF s.time < Head(log).time
    THEN /\ LegalIn(s, "WAIT")
         /\ \E ns \in {apply_action(s, "WAIT", table, champion, L.rune, T)} :
               LegalReplay(ns, log)
    ELSE /\ s.time = Head(log).time
         /\ LegalIn(s, Head(log).action)
         /\ \E ns \in {apply_action(s, Head(log).action, table, champion, L.rune, T)} :
               /\ ns.actions[Len(ns.actions)] = Head(log)
               /\ LegalReplay(ns, Tail(log))

\* C35: the timeline either search returns replays from the root state as a
\* legal run, the unlogged WAITs inserted: every action is legal in the state
\* it is applied to and is logged at that state's clock value
C35_ReturnedRunLegal == pc = "exit" => LegalReplay(MakeRoot(L), best.actions)

\* the greedy search returns a timeline of three entries or more with a WAIT
\* between two of them
C35_Witness ==
    /\ pc = "exit"
    /\ hist.ran = "greedy"
    /\ Len(best.actions) >= 3
    /\ \E i \in 1 .. Len(best.actions) - 1 : best.actions[i].time < best.actions[i + 1].time

\* the branch and bound returns a timeline with a WAIT between two entries
C35_WitnessBB ==
    /\ pc = "exit"
    /\ hist.ran = "branch_and_bound"
    /\ Len(best.actions) >= 3
    /\ \E i \in 1 .. Len(best.actions) - 1 : best.actions[i].time < best.actions[i + 1].time

\* C36: every action whose damage is counted lands at or before the horizon:
\* an action cast before the horizon whose hit would land after it adds no
\* damage to damage_so_far
C36_CountedDamageLands ==
    [][Logged /\ NewEntry.action \in ON_HIT_ACTIONS \cup {"W"}
              /\ cur'.damage_so_far > cur.damage_so_far
         => LandingTime(cur, NewEntry.action) <= T]_vars

\* C37: for the same root state, damage table and horizon, the state returned
\* by the branch and bound, its node ceiling not reached, has no less damage
\* than the state returned by the greedy search
C37_BBAtLeastGreedy ==
    pc = "exit" /\ hist.ran = "branch_and_bound" /\ ~hist.truncated
      => best.damage_so_far
           >= greedy_search(MakeRoot(L), table, champion, L.rune, T).damage_so_far

\* the sum of the damage values of the entries of a timeline
RECURSIVE TimelineDamage(_)
TimelineDamage(timeline) ==
    IF timeline = <<>> THEN 0 ELSE Head(timeline).damage + TimelineDamage(Tail(timeline))

\* the damage of the immolate aura over the horizon, which has no entry
AuraDamage == IF table.immolate_dps > 0 THEN RoundScaled(table.immolate_dps, T) ELSE 0

\* C38: the total_damage reported by optimize_dps equals the sum of the damage
\* values of the entries of its timeline, for every item set (builds with an
\* immolate aura item included)
C38_TotalIsTimelineSum ==
    pc = "done" => result.total_damage = TimelineDamage(result.timeline)

\* C38 (amended): the reported total is the sum of the entries' damage values
\* to within half a hundredth for each entry and for the total, plus, when the
\* build has an immolate aura item, the aura's damage over the horizon
C38_TotalIsSumPlusAura ==
    pc = "done" =>
      LET gap == result.total_damage - TimelineDamage(result.timeline) - AuraDamage
      IN  /\ 2 * gap <= Len(result.timeline) + 1
          /\ -2 * gap <= Len(result.timeline) + 1

\* a call with an immolate aura item returns a timeline of two entries or
\* more and a total above their sum
C38_Witness ==
    /\ pc = "done"
    /\ table.immolate_dps > 0
    /\ T > 0
    /\ Len(result.timeline) >= 2
    /\ result.total_damage > TimelineDamage(result.timeline)

\* C39: with Blade of the Ruined King in the build the tracked health of the
\* target is its maximum health less all damage dealt so far, the damage of
\* HYDRA_ACTIVE and STRIDEBREAKER included, and never below 0
C39_TrackedHealth ==
    pc = "sim" /\ cur.has_botrk
      => cur.target_current_hp = Max(L.target.max_hp - cur.damage_so_far, 0)

-----------------------------------------------------------------------------
(* Greedy calls with horizons past the cooldowns of the item actives         *)

\* horizons of 16 s and 17 s: Stridebreaker's 15 s cooldown ends inside the run
CooldownHorizons == {BB_THRESHOLD + 120 * HorizonStep, BB_THRESHOLD + 140 * HorizonStep}

InitCooldown ==
    /\ \E i \in {7, 8}, t \in CooldownHorizons :
          /\ inp = [loadout |-> Loadouts[i], time_limit |-> t]
          /\ champion = Loadouts[i].champion
    /\ callNo = 1
    /\ pc = "call"
    /\ table = DamageTable0
    /\ stack = <<>>
    /\ best = DPSState0
    /\ nodes_explored = 0
    /\ cur = DPSState0
    /\ result = NoResult
    /\ prev = NoResult
    /\ hist = Hist0
    /\ calls = <<>>
    /\ heap = Heap0

NextCooldown ==
    \/ Enter
    \/ BuildTable
    \/ StartGreedy
    \/ GreedyStep
    \/ GreedyReturn
    \/ Finish
    \/ NextCall

SpecCooldown == InitCooldown /\ [][NextCooldown]_vars

\* the timers of state s
Timers(s) ==
    {s.ability_lock_until, s.next_aa_at, s.q_cd_until, s.w_cd_until, s.e_cd_until,
     s.r_cd_until, s.hydra_active_cd_until, s.stridebreaker_cd_until, s.e_expires_at,
     s.next_vital_at}

\* action a (AA standing for the basic attack of whichever kind) is legal in
\* state s with its clock set to u
LegalAt(s, u, a) ==
    IF a = "AA" THEN \E b \in BASIC_ATTACKS : LegalIn([s EXCEPT !.time = u], b)
    ELSE LegalIn([s EXCEPT !.time = u], a)

\* a WAIT from the current state stops no later than the first time at which
\* an action that is unavailable now becomes legal
WaitStopsInTime ==
    \A a \in {"AA", "Q", "W", "E_ACTIVATE", "R_ACTIVATE", "HYDRA_ACTIVE", "STRIDEBREAKER"} :
      \A u \in Timers(cur) :
        (cur.time < u /\ u < cur'.time)
          => (LegalAt(cur, u, a) => LegalAt(cur, cur.time, a))

\* C40: WAIT never moves the clock past the earliest time at which an action
\* that is unavailable now becomes legal: no action among AA, Q, W,
\* E_ACTIVATE, R_ACTIVATE, HYDRA_ACTIVE and STRIDEBREAKER turns legal at a
\* time strictly between the clock before the WAIT and the clock after it
C40_WaitStopsAtAvailability ==
    [][(pc \in {"sim", "greedy"} /\ cur'.time > cur.time) => WaitStopsInTime]_vars

=========================================================================
